---- MODULE Spec2Model ----
(***************************************************************************)
(* Model of the mongoose arena simulation (src/src/main.rs): the Arena     *)
(* (occupancy grid + petgraph adjacency graph over free cells), the        *)
(* bounded path planner AI::plan_path, and the plan / move / spawn systems *)
(* of the FixedUpdate schedule.                                            *)
(***************************************************************************)
EXTENDS Integers, Sequences, FiniteSets, TLC

\* ------------------------------------------------------------------ sizes
\* The arena of the program is 20 x 20; the model scales it down.
ARENA_WIDTH == 4
ARENA_HEIGHT == 4

\* all_simple_paths is called with max_intermediate_nodes = MAX_PATH_LENGTH.
MAX_PATH_LENGTH == 8

\* Planner harness (SpecPlan): number of occupied cells other than the
\* planning agent, and the largest x coordinate of the start cell.
MaxObstacles == 3
MaxStartX == 0

None == <<>>

Cells == (0 .. ARENA_WIDTH - 1) \X (0 .. ARENA_HEIGHT - 1)

InArena(x, y) == ~(x >= ARENA_WIDTH \/ x < 0 \/ y >= ARENA_HEIGHT \/ y < 0)

Adjacent(u, v) ==
    \/ u[1] = v[1] /\ (u[2] = v[2] + 1 \/ v[2] = u[2] + 1)
    \/ u[2] = v[2] /\ (u[1] = v[1] + 1 \/ v[1] = u[1] + 1)

Last(s) == s[Len(s)]
Front(s) == SubSeq(s, 1, Len(s) - 1)
Range(s) == {s[i] : i \in DOMAIN s}
Reverse(s) == [i \in 1 .. Len(s) |-> s[Len(s) + 1 - i]]

\* ------------------------------------------------------------------ Arena
\* The graph is the petgraph edge list in insertion order; an edge is
\* <<source, target>>.  Removing an edge keeps the relative order of the
\* others in every adjacency list.

\* Edges added by Arena::new for cell (i, j), in the order of the two ifs.
NewEdgesAt(i, j) ==
    (IF i < ARENA_WIDTH - 1 THEN << << <<i, j>>, <<i + 1, j>> >> >> ELSE <<>>)
    \o (IF j < ARENA_HEIGHT - 1 THEN << << <<i, j>>, <<i, j + 1>> >> >> ELSE <<>>)

RECURSIVE NewEdgesFrom(_)
NewEdgesFrom(k) ==
    IF k >= ARENA_WIDTH * ARENA_HEIGHT THEN <<>>
    ELSE NewEdgesAt(k \div ARENA_HEIGHT, k % ARENA_HEIGHT) \o NewEdgesFrom(k + 1)

ArenaNew ==
    [occ |-> [c \in Cells |-> None], graph |-> NewEdgesFrom(0), panic |-> FALSE]

isset(a, x, y) ==
    IF ~InArena(x, y) THEN FALSE ELSE a.occ[<<x, y>>] # None

\* A mover that does not look at the cell it steps onto.
occ_unseen(a, x, y) == None

occ(a, x, y) ==
    IF ~InArena(x, y) THEN None ELSE a.occ[<<x, y>>]

\* add_edges_with without the isset tests on the neighbours.
add_edges_unchecked(a, x, y) ==
    LET n == <<x, y>>
        e1 == IF x < ARENA_WIDTH - 1 THEN << <<n, <<x + 1, y>> >> >> ELSE <<>>
        e2 == IF y < ARENA_HEIGHT - 1 THEN << <<n, <<x, y + 1>> >> >> ELSE <<>>
        e3 == IF x > 0 THEN << <<n, <<x - 1, y>> >> >> ELSE <<>>
        e4 == IF y > 0 THEN << <<n, <<x, y - 1>> >> >> ELSE <<>>
    IN [a EXCEPT !.graph = a.graph \o e1 \o e2 \o e3 \o e4]

add_edges_with(a, x, y) ==
    LET n == <<x, y>>
        e1 == IF x < ARENA_WIDTH - 1 /\ ~isset(a, x + 1, y)
              THEN << <<n, <<x + 1, y>> >> >> ELSE <<>>
        e2 == IF y < ARENA_HEIGHT - 1 /\ ~isset(a, x, y + 1)
              THEN << <<n, <<x, y + 1>> >> >> ELSE <<>>
        e3 == IF x > 0 /\ ~isset(a, x - 1, y)
              THEN << <<n, <<x - 1, y>> >> >> ELSE <<>>
        e4 == IF y > 0 /\ ~isset(a, x, y - 1)
              THEN << <<n, <<x, y - 1>> >> >> ELSE <<>>
    IN [a EXCEPT !.graph = a.graph \o e1 \o e2 \o e3 \o e4]

\* remove_edges_with that removes nothing.
remove_edges_none(a, x, y) == a

remove_edges_with(a, x, y) ==
    LET n == <<x, y>>
        keep(e) == e[1] # n /\ e[2] # n
    IN [a EXCEPT !.graph = SelectSeq(a.graph, keep)]

\* set that overwrites the occupant of an occupied cell.
set_overwrites(a, x, y, o) ==
    IF a.panic THEN a
    ELSE IF ~InArena(x, y) THEN a
    ELSE remove_edges_with([a EXCEPT !.occ[<<x, y>>] = o], x, y)

set(a, x, y, o) ==
    IF a.panic THEN a
    ELSE IF ~InArena(x, y) THEN a
    ELSE IF isset(a, x, y) THEN [a EXCEPT !.panic = TRUE]
    ELSE remove_edges_with([a EXCEPT !.occ[<<x, y>>] = o], x, y)

\* unset that frees the cell and returns no occupant.
unset_forgets(a, x, y) ==
    IF a.panic THEN [arena |-> a, ret |-> None]
    ELSE IF ~InArena(x, y) THEN [arena |-> a, ret |-> None]
    ELSE IF a.occ[<<x, y>>] = None
         THEN [arena |-> [a EXCEPT !.panic = TRUE], ret |-> None]
    ELSE [arena |-> add_edges_with([a EXCEPT !.occ[<<x, y>>] = None], x, y),
          ret |-> None]

\* unset that returns the occupant and leaves the cell as it was.
unset_keeps(a, x, y) ==
    IF a.panic THEN [arena |-> a, ret |-> None]
    ELSE IF ~InArena(x, y) THEN [arena |-> a, ret |-> None]
    ELSE IF a.occ[<<x, y>>] = None
         THEN [arena |-> [a EXCEPT !.panic = TRUE], ret |-> None]
    ELSE [arena |-> a, ret |-> a.occ[<<x, y>>]]

unset(a, x, y) ==
    IF a.panic THEN [arena |-> a, ret |-> None]
    ELSE IF ~InArena(x, y) THEN [arena |-> a, ret |-> None]
    ELSE IF a.occ[<<x, y>>] = None
         THEN [arena |-> [a EXCEPT !.panic = TRUE], ret |-> None]
    ELSE [arena |-> add_edges_with([a EXCEPT !.occ[<<x, y>>] = None], x, y),
          ret |-> a.occ[<<x, y>>]]

\* unset_maybe that takes a coordinate outside the arena for the nearest
\* cell of the arena.
unset_maybe_clamped(a, x, y) ==
    LET cx == IF x < 0 THEN 0 ELSE IF x >= ARENA_WIDTH THEN ARENA_WIDTH - 1 ELSE x
        cy == IF y < 0 THEN 0 ELSE IF y >= ARENA_HEIGHT THEN ARENA_HEIGHT - 1 ELSE y
    IN IF a.panic THEN [arena |-> a, ret |-> None]
       ELSE [arena |-> add_edges_with([a EXCEPT !.occ[<<cx, cy>>] = None], cx, cy),
             ret |-> a.occ[<<cx, cy>>]]

unset_maybe(a, x, y) ==
    IF a.panic THEN [arena |-> a, ret |-> None]
    ELSE IF ~InArena(x, y) THEN [arena |-> a, ret |-> None]
    ELSE [arena |-> add_edges_with([a EXCEPT !.occ[<<x, y>>] = None], x, y),
          ret |-> a.occ[<<x, y>>]]

\* ------------------------------------------------------------------ planner
\* petgraph neighbors of an undirected graph: the outgoing list of n (most
\* recently added edge first), then the incoming list (most recent first).
Neighbors(g, n) ==
    LET isOut(e) == e[1] = n
        isIn(e) == e[2] = n /\ e[1] # n
        outs == SelectSeq(g, isOut)
        ins == SelectSeq(g, isIn)
    IN Reverse([i \in 1 .. Len(outs) |-> outs[i][2]])
       \o Reverse([i \in 1 .. Len(ins) |-> ins[i][1]])

\* all_simple_paths(graph, from, to, 0, Some(MAX_PATH_LENGTH)): the first
\* path of the depth-first enumeration, as a sequence of nodes starting with
\* from and ending with to, or <<>> when the enumeration is empty.
max_length == MAX_PATH_LENGTH + 1
min_length == 0 + 1

RECURSIVE SimplePathSearch(_, _, _, _)
SimplePathSearch(g, to, visited, children) ==
    IF children = <<>> THEN <<>>
    ELSE LET child == Head(children)
             rest == Tail(children)
         IN IF Len(visited) < max_length
            THEN IF child = to
                 THEN IF Len(visited) >= min_length
                      THEN Append(visited, to)
                      ELSE SimplePathSearch(g, to, visited, rest)
                 ELSE IF child \notin Range(visited)
                 THEN LET r == SimplePathSearch(g, to, Append(visited, child),
                                                Neighbors(g, child))
                      IN IF r # <<>> THEN r
                         ELSE SimplePathSearch(g, to, visited, rest)
                 ELSE SimplePathSearch(g, to, visited, rest)
            ELSE IF (child = to \/ to \in Range(rest)) /\ Len(visited) >= min_length
                 THEN Append(visited, to)
                 ELSE <<>>

all_simple_paths_first(g, from, to) ==
    SimplePathSearch(g, to, <<from>>, Neighbors(g, from))

\* A plan_path that does not put the occupant of goal back.
plan_path_forgets_goal(ai, p, goal, a) ==
    LET u1 == unset(a, p[1], p[2])
        u2 == unset_maybe(u1.arena, goal[1], goal[2])
        first == IF u2.arena.panic THEN <<>>
                 ELSE all_simple_paths_first(u2.arena.graph, p, goal)
        a3 == IF u1.ret # None THEN set(u2.arena, p[1], p[2], u1.ret) ELSE u2.arena
    IN [ai |-> IF first # <<>> /\ ~a3.panic
               THEN [ai EXCEPT !.path = Tail(first)] ELSE ai,
        arena |-> a3]

\* AI::plan_path: returns the AI and the arena after the call.
plan_path(ai, p, goal, a) ==
    LET u1 == unset(a, p[1], p[2])
        u2 == unset_maybe(u1.arena, goal[1], goal[2])
        nodes_ok == InArena(p[1], p[2]) /\ InArena(goal[1], goal[2])
        first == IF u2.arena.panic \/ ~nodes_ok THEN <<>>
                 ELSE all_simple_paths_first(u2.arena.graph, p, goal)
        a2 == IF nodes_ok THEN u2.arena ELSE [u2.arena EXCEPT !.panic = TRUE]
        a3 == IF u1.ret # None THEN set(a2, p[1], p[2], u1.ret) ELSE a2
        a4 == IF u2.ret # None THEN set(a3, goal[1], goal[2], u2.ret) ELSE a3
    IN [ai |-> IF first # <<>> /\ ~a4.panic
               THEN [ai EXCEPT !.path = Tail(first)] ELSE ai,
        arena |-> a4]

\* clear that keeps the target.
ai_clear_route_only(ai) == [ai EXCEPT !.path = <<>>]

ai_clear(ai) == [ai EXCEPT !.path = <<>>, !.target = None]

\* A pop that takes the last waypoint of the route.
pop_back(path) ==
    IF path = <<>> THEN [next |-> None, rest |-> <<>>]
    ELSE [next |-> Last(path), rest |-> Front(path)]

\* A pop_front that leaves the waypoint on the route.
pop_front_peek(path) ==
    IF path = <<>> THEN [next |-> None, rest |-> <<>>]
    ELSE [next |-> Head(path), rest |-> path]

\* A pop_front that hands a routeless agent its first grid cell.
pop_front_default(path) ==
    IF path = <<>> THEN [next |-> <<0, 0>>, rest |-> <<>>]
    ELSE [next |-> Head(path), rest |-> Tail(path)]

\* ai.path.pop_front(): the first waypoint (None for an empty route) and
\* the route without it.
pop_front(path) ==
    IF path = <<>> THEN [next |-> None, rest |-> <<>>]
    ELSE [next |-> Head(path), rest |-> Tail(path)]

\* A planner that takes every agent for idle.
busy_never(ai) == FALSE

\* The test of plan_rats and plan_snakes for an agent that is already
\* moving toward something.
busy(ai) == Len(ai.path) > 0

\* ------------------------------------------------------------------ state
\* arena: occupancy, graph and the panic flag of the last Arena call;
\* berries, rats, snakes: the live entities in query order; mongoose: the
\* player's body (None before Startup); next_entity: the number the next
\* entity of each kind gets; steps: the planning steps and the moves taken;
\* last: the outcome of the last step, for the outcomes that are no plain
\* progress (eating, a blocked move, a step that changed nothing).
VARIABLES arena, berries, rats, snakes, mongoose, scoreboard, grow_events,
          next_entity, steps, panicked, last

vars == <<arena, berries, rats, snakes, mongoose, scoreboard, grow_events,
          next_entity, steps, panicked, last>>

NewAI == [path |-> <<>>, target |-> None]

NoSteps == [plans |-> 0, moves |-> 0]

NoEntities == [Rat |-> 1, Berry |-> 1, Snake |-> 1]

\* Entity ids are opaque and unique: the kind, the number within the kind,
\* and for a body segment its number within the body.
Entity(kind, n, k) == <<kind, n, k>>

NewScoreboard ==
    [berries_eaten_by_mongoose |-> 0, berries_eaten_by_rats |-> 0,
     berries_eaten_by_snakes |-> 0, rats_eaten_by_mongoose |-> 0,
     rats_eaten_by_snakes |-> 0]

\* ------------------------------------------------------------------ simulation
\* Bounds of the simulation: live rats, berries and snakes, and all of them
\* together; planning steps that chose a target; moves of rats, snakes and
\* the mongoose; the number of values (counted from the low end of its
\* range) a coordinate draw of thread_rng can return, and the same for the
\* draws of a snake's length and of its side.
MaxRats == 2
MaxBerries == 1
MaxSnakes == 1
MaxEntities == 2
MaxPlans == 2
MaxMoves == 2
RngRange == 2
RngShapes == 1
RngSides == 2

Min(a, b) == IF a < b THEN a ELSE b
Max(a, b) == IF a > b THEN a ELSE b

\* rng.gen_range(lo..hi), hi exclusive.
gen_range(lo, hi) == lo .. Min(hi - 1, lo + RngRange - 1)

\* The same for the draws of a snake's length and of its side.
gen_shape(lo, hi) == lo .. Min(hi - 1, lo + RngShapes - 1)
gen_side(lo, hi) == lo .. Min(hi - 1, lo + RngSides - 1)

\* Every system of the FixedUpdate chain returns at once while its timer has
\* not finished, every agent loop skips the agents whose timer has not
\* finished, and the timers are independent of the state modelled here.  A
\* step of the model is therefore the next system (and agent) whose timer
\* has finished; the early returns in between change nothing.

\* A despawn that is never applied.
swap_remove_skipped(seq, i) == seq

\* A despawn that removes the last row of the table, whichever entity it
\* was called for.
swap_remove_last(seq, i) == Front(seq)

\* despawn: the table row of the entity is swap-removed.
swap_remove(seq, i) ==
    IF i = Len(seq) THEN Front(seq)
    ELSE [Front(seq) EXCEPT ![i] = Last(seq)]

IndexOfEntity(seq, e) ==
    IF \E i \in DOMAIN seq : seq[i].id = e
    THEN CHOOSE i \in DOMAIN seq : seq[i].id = e
    ELSE 0

\* Startup: spawn_mongoose on the arena of Arena::new.
spawn_mongoose(a) ==
    LET x == ARENA_WIDTH \div 2
        y == ARENA_HEIGHT \div 2
        seg(k) == Entity("Segment", 0, k)
        a1 == set(a, x, y, <<"Mongoose", seg(1)>>)
        a2 == set(a1, x + 1, y, <<"Mongoose", seg(2)>>)
        a3 == set(a2, x + 1, y - 1, <<"Mongoose", seg(3)>>)
    IN [arena |-> a3,
        mongoose |-> [id |-> Entity("Mongoose", 0, 0), head_position |-> <<x, y>>,
                      segments |-> << [id |-> seg(1), pos |-> <<x, y>>],
                                      [id |-> seg(2), pos |-> <<x + 1, y>>],
                                      [id |-> seg(3), pos |-> <<x + 1, y - 1>>] >>]]

\* The value of last after a step of plain progress.
Progress == [op |-> "system", outcome |-> "progress"]

Init ==
    /\ arena = spawn_mongoose(ArenaNew).arena
    /\ mongoose = spawn_mongoose(ArenaNew).mongoose
    /\ berries = <<>>
    /\ rats = <<>>
    /\ snakes = <<>>
    /\ scoreboard = NewScoreboard
    /\ grow_events = <<>>
    /\ next_entity = NoEntities
    /\ steps = NoSteps
    /\ panicked = FALSE
    /\ last = Progress

\* A step that changes nothing (an agent without a route, a planning step
\* whose choice leaves the agent as it was, a mongoose at the edge or
\* blocked) is recorded in last and not explored further: what can follow it
\* is what can follow the state it was taken in.
ChangedNothing(l) ==
    \/ l.outcome \in {"no_route", "edge", "same", "busy"}
    \/ l.op = "move_mongoose" /\ l.outcome = "blocked"

Running == ~panicked /\ ~ChangedNothing(last)

\* The rats, berries and snakes alive.
Spawned == Len(rats) + Len(berries) + Len(snakes)

spawn_rats ==
    /\ Running
    /\ Len(rats) < MaxRats /\ Spawned < MaxEntities
    /\ \E x \in gen_range(0, ARENA_WIDTH), y \in gen_range(0, ARENA_HEIGHT) :
         LET rat == Entity("Rat", next_entity.Rat, 0)
         IN /\ ~isset(arena, x, y)
            /\ arena' = set(arena, x, y, <<"Rat", rat>>)
            /\ rats' = Append(rats, [id |-> rat, pos |-> <<x, y>>, ai |-> NewAI])
    /\ next_entity' = [next_entity EXCEPT !.Rat = @ + 1]
    /\ panicked' = arena'.panic
    /\ last' = Progress
    /\ UNCHANGED <<berries, snakes, mongoose, scoreboard, grow_events, steps>>

spawn_berries ==
    /\ Running
    /\ Len(berries) < MaxBerries /\ Spawned < MaxEntities
    /\ \E x \in gen_range(0, ARENA_WIDTH), y \in gen_range(0, ARENA_HEIGHT) :
         LET berry == Entity("Berry", next_entity.Berry, 0)
         IN /\ ~isset(arena, x, y)
            /\ arena' = set(arena, x, y, <<"Berry", berry>>)
            /\ berries' = Append(berries, [id |-> berry, pos |-> <<x, y>>])
    /\ next_entity' = [next_entity EXCEPT !.Berry = @ + 1]
    /\ panicked' = arena'.panic
    /\ last' = Progress
    /\ UNCHANGED <<rats, snakes, mongoose, scoreboard, grow_events, steps>>

\* spawn_snake: n + 2 segments from (x, y) in direction (delta_x, delta_y);
\* every segment is set in the arena, then the snake entity is spawned.
RECURSIVE SnakeSegments(_, _, _, _, _, _)
SnakeSegments(k, count, x, y, delta_x, delta_y) ==
    IF k > count THEN <<>>
    ELSE << [id |-> Entity("Segment", next_entity.Snake, k), pos |-> <<x, y>>] >>
         \o SnakeSegments(k + 1, count, x + delta_x, y + delta_y, delta_x, delta_y)

RECURSIVE SetSegments(_, _, _)
SetSegments(a, segs, k) ==
    IF k > Len(segs) THEN a
    ELSE SetSegments(set(a, segs[k].pos[1], segs[k].pos[2], <<"Snake", segs[k].id>>),
                     segs, k + 1)

spawn_snake(x, y, n, delta_x, delta_y) ==
    LET segs == SnakeSegments(1, n + 2, x, y, delta_x, delta_y)
    IN /\ arena' = SetSegments(arena, segs, 1)
       /\ snakes' = Append(snakes, [id |-> Entity("Snake", next_entity.Snake, 0),
                                    head_position |-> <<x, y>>,
                                    segments |-> segs, ai |-> NewAI])
       /\ next_entity' = [next_entity EXCEPT !.Snake = @ + 1]

\* The spawn cell and direction for side (LEFT, UP, RIGHT, DOWN = 0 .. 3).
SnakeSide(side, p) ==
    CASE side = 0 -> <<0, p, -1, 0>>
      [] side = 1 -> <<p, ARENA_HEIGHT - 1, 0, 1>>
      [] side = 2 -> <<ARENA_WIDTH - 1, p, 1, 0>>
      [] side = 3 -> <<p, 0, 0, -1>>

spawn_snakes ==
    /\ Running
    /\ Len(snakes) < MaxSnakes /\ Spawned < MaxEntities
    /\ \E n \in gen_shape(0, 4), p \in gen_range(0, ARENA_HEIGHT - 1),
          side \in gen_side(0, 4) :
         LET s == SnakeSide(side, p)
         IN /\ ~isset(arena, s[1], s[2])
            /\ spawn_snake(s[1], s[2], n, s[3], s[4])
    /\ panicked' = arena'.panic
    /\ last' = Progress
    /\ UNCHANGED <<berries, rats, mongoose, scoreboard, grow_events, steps>>

\* ------------------------------------------------------------------ planning systems
Abs(n) == IF n < 0 THEN -n ELSE n

\* A choose_random_entity that filters by the Manhattan distance.
choose_random_entity_manhattan(query, position) ==
    LET near == {i \in DOMAIN query :
                   Abs(position[1] - query[i].pos[1])
                     + Abs(position[2] - query[i].pos[2]) <= MAX_PATH_LENGTH}
    IN IF near = {} THEN {None}
       ELSE {<<"Entity", query[i].id>> : i \in near}

\* choose_random_entity: the targets the random choice can return.
choose_random_entity(query, position) ==
    LET near == {i \in DOMAIN query :
                   Abs(position[1] + position[2] - query[i].pos[1] - query[i].pos[2])
                       <= MAX_PATH_LENGTH}
    IN IF near = {} THEN {None}
       ELSE {<<"Entity", query[i].id>> : i \in near}

\* choose_random_unocc: let mut attempts = 10, and the loop gives up when
\* attempts >= 10 after the increment.
InitialAttempts == 10
AttemptBudget == 10

\* choose_random_unocc reads the arena through isset and the constants
\* ARENA_WIDTH and ARENA_HEIGHT only.  Its parts are written for an arena of
\* width w and height h with occupancy o, and for draws that return the
\* first `width` values of their range, so that the function can be applied
\* on the simulation's arena and on the program's 20 x 20 arena alike.

\* Arena::isset on an arena of width w and height h.
isset_in(w, h, o, x, y) ==
    IF x >= w \/ x < 0 \/ y >= h \/ y < 0 THEN FALSE ELSE o[<<x, y>>] # None

\* rng.gen_range(lo..hi), hi exclusive, of the given width.
gen_range_of(width, lo, hi) == lo .. Min(hi - 1, lo + width - 1)

\* A box that reaches MAX_PATH_LENGTH cells from the position.
wander_box_whole_length(w, h, position) ==
    [x_min |-> Max(0, position[1] - MAX_PATH_LENGTH),
     y_min |-> Max(0, position[2] - MAX_PATH_LENGTH),
     x_max |-> Min(w - 1, position[1] + MAX_PATH_LENGTH),
     y_max |-> Min(h - 1, position[2] + MAX_PATH_LENGTH)]

\* The bounding box choose_random_unocc draws from.
wander_box_in(w, h, position) ==
    [x_min |-> Max(0, position[1] - MAX_PATH_LENGTH \div 2),
     y_min |-> Max(0, position[2] - MAX_PATH_LENGTH \div 2),
     x_max |-> Min(w - 1, position[1] + MAX_PATH_LENGTH \div 2),
     y_max |-> Min(h - 1, position[2] + MAX_PATH_LENGTH \div 2)]

wander_box(position) == wander_box_in(ARENA_WIDTH, ARENA_HEIGHT, position)

\* The loop of choose_random_unocc entered with the given attempts, its
\* draws of x in xs and of y in ys: what it can return, with the number of
\* draws it made.
RECURSIVE unocc_loop_in(_, _, _, _, _, _)
unocc_loop_in(w, h, xs, ys, o, attempts) ==
    UNION {IF ~isset_in(w, h, o, x, y)
           THEN {[ret |-> <<"Position", <<x, y>>>>, draws |-> 1]}
           ELSE IF attempts + 1 >= AttemptBudget
           THEN {[ret |-> None, draws |-> 1]}
           ELSE {[r EXCEPT !.draws = @ + 1] :
                    r \in unocc_loop_in(w, h, xs, ys, o, attempts + 1)} :
           x \in xs, y \in ys}

unocc_loop(box, a, attempts) ==
    unocc_loop_in(ARENA_WIDTH, ARENA_HEIGHT,
                  gen_range(box.x_min, box.x_max + 1),
                  gen_range(box.y_min, box.y_max + 1), a.occ, attempts)

\* choose_random_unocc on an arena of width w and height h.
choose_random_unocc_in(w, h, width, position, o) ==
    LET box == wander_box_in(w, h, position)
    IN {r.ret : r \in unocc_loop_in(w, h,
                         gen_range_of(width, box.x_min, box.x_max + 1),
                         gen_range_of(width, box.y_min, box.y_max + 1),
                         o, InitialAttempts)}

\* choose_random_unocc: the targets it can return.
choose_random_unocc(position, a) ==
    choose_random_unocc_in(ARENA_WIDTH, ARENA_HEIGHT, RngRange, position, a.occ)

RAT_BERRY_PREFERENCE == 4
RAT_WANDER_PREFERENCE == 3
SNAKE_RAT_PREFERENCE == 5
SNAKE_BERRY_PREFERENCE == 2
SNAKE_WANDER_PREFERENCE == 2

\* rng.gen_range(0..10): the values of the planning roll.
Rolls == 0 .. 9

\* The branch of the if-chain of plan_rats a roll takes: chase a berry,
\* wander to a random free cell, or nothing.
rat_behaviour(roll) ==
    IF roll <= RAT_BERRY_PREFERENCE THEN "berry"
    ELSE IF roll < RAT_WANDER_PREFERENCE + RAT_BERRY_PREFERENCE THEN "wander"
    ELSE "nothing"

\* The branch of the if-chain of plan_snakes a roll takes: chase a rat,
\* chase a berry, wander, or nothing.
snake_behaviour(roll) ==
    IF roll <= SNAKE_RAT_PREFERENCE THEN "rat"
    ELSE IF roll <= SNAKE_BERRY_PREFERENCE + SNAKE_RAT_PREFERENCE THEN "berry"
    ELSE IF roll < SNAKE_WANDER_PREFERENCE + SNAKE_BERRY_PREFERENCE
                   + SNAKE_RAT_PREFERENCE
    THEN "wander"
    ELSE "nothing"

\* The targets plan_rats can pick for a roll.
rat_targets(roll, position) ==
    CASE rat_behaviour(roll) = "berry" -> choose_random_entity(berries, position)
      [] rat_behaviour(roll) = "wander" -> choose_random_unocc(position, arena)
      [] OTHER -> {None}

\* The targets plan_snakes can pick for a roll.
snake_targets(roll, position) ==
    CASE snake_behaviour(roll) = "rat" -> choose_random_entity(rats, position)
      [] snake_behaviour(roll) = "berry" -> choose_random_entity(berries, position)
      [] snake_behaviour(roll) = "wander" -> choose_random_unocc(position, arena)
      [] OTHER -> {None}

\* The goal plan_rats derives from the target.
rat_goal(target) ==
    IF target = None THEN None
    ELSE IF target[1] = "Entity"
    THEN berries[IndexOfEntity(berries, target[2])].pos
    ELSE target[2]

\* The goal plan_snakes derives from the target: only a position counts.
snake_goal(target) ==
    IF target # None /\ target[1] = "Position" THEN target[2] ELSE None

\* The AI and the arena after the planning of one agent with the chosen
\* target and the goal derived from it.
plan_agent(ai, position, target, goal) ==
    IF goal # None
    THEN plan_path([ai EXCEPT !.target = target], position, goal, arena)
    ELSE [ai |-> ai_clear([ai EXCEPT !.target = target]), arena |-> arena]

\* The body of the loop of plan_rats for rat i: the arena, the rats and
\* the record of the step.
plan_rat(i) ==
    LET rat == rats[i]
    IN \/ /\ busy(rat.ai)
          /\ last' = [op |-> "plan_rats", outcome |-> "busy", agent |-> rat.id]
          /\ UNCHANGED <<arena, rats>>
       \/ /\ ~busy(rat.ai)
          /\ \E roll \in Rolls : \E target \in rat_targets(roll, rat.pos) :
               LET goal == rat_goal(target)
                   r == plan_agent(rat.ai, rat.pos, target, goal)
                   same == r.arena = arena /\ r.ai = rat.ai
               IN /\ arena' = r.arena
                  /\ rats' = [rats EXCEPT ![i].ai = r.ai]
                  /\ last' = [op |-> "plan_rats",
                              outcome |-> IF same THEN "same" ELSE "planned",
                              agent |-> rat.id, selected |-> target]

plan_rats ==
    /\ Running
    /\ \E i \in DOMAIN rats :
          /\ busy(rats[i].ai) \/ steps.plans < MaxPlans
          /\ plan_rat(i)
    /\ steps' = IF last'.outcome = "planned"
                THEN [steps EXCEPT !.plans = @ + 1] ELSE steps
    /\ panicked' = arena'.panic
    /\ UNCHANGED <<berries, snakes, mongoose, scoreboard, grow_events,
                   next_entity>>

\* The body of the loop of plan_snakes for snake i: the arena, the snakes
\* and the record of the step.
plan_snake(i) ==
    LET snake == snakes[i]
    IN \/ /\ busy(snake.ai)
          /\ last' = [op |-> "plan_snakes", outcome |-> "busy",
                      agent |-> snake.id]
          /\ UNCHANGED <<arena, snakes>>
       \/ /\ ~busy(snake.ai)
          /\ \E roll \in Rolls :
             \E target \in snake_targets(roll, snake.head_position) :
               LET goal == snake_goal(target)
                   r == plan_agent(snake.ai, snake.head_position, target, goal)
                   same == r.arena = arena /\ r.ai = snake.ai
               IN /\ arena' = r.arena
                  /\ snakes' = [snakes EXCEPT ![i].ai = r.ai]
                  /\ last' = [op |-> "plan_snakes",
                              outcome |-> IF same THEN "same" ELSE "planned",
                              agent |-> snake.id, selected |-> target]

plan_snakes ==
    /\ Running
    /\ \E i \in DOMAIN snakes :
          /\ busy(snakes[i].ai) \/ steps.plans < MaxPlans
          /\ plan_snake(i)
    /\ steps' = IF last'.outcome = "planned"
                THEN [steps EXCEPT !.plans = @ + 1] ELSE steps
    /\ panicked' = arena'.panic
    /\ UNCHANGED <<berries, rats, mongoose, scoreboard, grow_events,
                   next_entity>>

\* ------------------------------------------------------------------ movement systems
Kind(o) == IF o = None THEN "None" ELSE o[1]

\* The body of the loop of move_rats for rat i: the arena, the rats, the
\* berries, the scoreboard and the record of the step.
move_rat(i) ==
    LET rat == rats[i]
        position == rat.pos
        front == pop_front(rat.ai.path)
    IN \/ /\ front.next = None
          /\ last' = [op |-> "move_rats", outcome |-> "no_route"]
          /\ UNCHANGED <<arena, berries, rats, scoreboard>>
       \/ /\ front.next # None
          /\ LET next_position == front.next
                 popped == [rat.ai EXCEPT !.path = front.rest]
                 o == occ(arena, next_position[1], next_position[2])
             IN CASE Kind(o) = "None" ->
                       LET a1 == unset(arena, position[1], position[2]).arena
                       IN /\ arena' = set(a1, next_position[1], next_position[2],
                                          <<"Rat", rat.id>>)
                          /\ rats' = [rats EXCEPT ![i].pos = next_position,
                                                  ![i].ai = popped]
                          /\ last' = Progress
                          /\ UNCHANGED <<berries, scoreboard>>
                  [] Kind(o) = "Berry" ->
                       LET a1 == unset(arena, position[1], position[2]).arena
                           a2 == unset(a1, next_position[1], next_position[2]).arena
                       IN /\ arena' = set(a2, next_position[1], next_position[2],
                                          <<"Rat", rat.id>>)
                          /\ rats' = [rats EXCEPT ![i].pos = next_position,
                                                  ![i].ai = popped]
                          /\ berries' = swap_remove(berries,
                                                    IndexOfEntity(berries, o[2]))
                          /\ scoreboard' =
                               [scoreboard EXCEPT !.berries_eaten_by_rats = @ + 1]
                          /\ last' = [op |-> "move_rats",
                                      agent |-> rat.id, outcome |-> "ate",
                                      cell |-> next_position, victim |-> o]
                  [] OTHER ->
                       /\ rats' = [rats EXCEPT ![i].ai = ai_clear(popped)]
                       /\ last' = [op |-> "move_rats",
                                   agent |-> rat.id, outcome |-> "blocked",
                                   cell |-> next_position, victim |-> o]
                       /\ UNCHANGED <<arena, berries, scoreboard>>

move_rats ==
    /\ Running
    /\ \E i \in DOMAIN rats :
          /\ pop_front(rats[i].ai.path).next = None \/ steps.moves < MaxMoves
          /\ move_rat(i)
          /\ steps' = IF pop_front(rats[i].ai.path).next = None THEN steps
                      ELSE [steps EXCEPT !.moves = @ + 1]
    /\ panicked' = arena'.panic
    /\ UNCHANGED <<snakes, mongoose, grow_events, next_entity>>

\* A shift in which only the first segment moves.
ShiftHeadOnly(segments, head) ==
    [k \in DOMAIN segments |->
        [segments[k] EXCEPT !.pos = IF k = 1 THEN head ELSE segments[k].pos]]

\* The segment positions after a follow-the-leader shift to head: segment 1
\* takes head, segment k takes the position segment k - 1 had.
ShiftSegments(segments, head) ==
    [k \in DOMAIN segments |->
        [segments[k] EXCEPT !.pos = IF k = 1 THEN head ELSE segments[k - 1].pos]]

\* move_snake_segments: the Segmented and the arena after the move.
move_snake_segments(snake, next_position, segmented, a) ==
    LET a1 == set(a, next_position[1], next_position[2], <<"Snake", snake>>)
        shifted == ShiftSegments(segmented.segments, next_position)
        gap_position == IF segmented.segments = <<>> THEN next_position
                        ELSE Last(segmented.segments).pos
        grown == \E k \in DOMAIN shifted :
                    shifted[k].pos = segmented.segments[k].pos
    IN [segmented |-> [segmented EXCEPT !.head_position = next_position,
                                        !.segments = shifted],
        arena |-> IF ~grown THEN unset(a1, gap_position[1], gap_position[2]).arena
                  ELSE a1]

\* The body of the loop of move_snakes for snake i: the arena, the snakes,
\* the berries, the rats, the scoreboard and the record of the step.
move_snake(i) ==
    LET snake == snakes[i]
        front == pop_front(snake.ai.path)
    IN \/ /\ front.next = None
          /\ last' = [op |-> "move_snakes", outcome |-> "no_route"]
          /\ UNCHANGED <<arena, berries, rats, snakes, scoreboard>>
       \/ /\ front.next # None
          /\ LET next_position == front.next
                 popped == [snake EXCEPT !.ai.path = front.rest]
                 x == next_position[1]
                 y == next_position[2]
                 o == occ(arena, x, y)
                 eat == move_snake_segments(snake.id, next_position, popped,
                                            unset(arena, x, y).arena)
             IN CASE Kind(o) = "None" ->
                       LET m == move_snake_segments(snake.id, next_position,
                                                    popped, arena)
                       IN /\ arena' = m.arena
                          /\ snakes' = [snakes EXCEPT ![i] = m.segmented]
                          /\ last' = Progress
                          /\ UNCHANGED <<berries, rats, scoreboard>>
                  [] Kind(o) = "Berry" ->
                       /\ arena' = eat.arena
                       /\ snakes' = [snakes EXCEPT ![i] = eat.segmented]
                       /\ berries' = swap_remove(berries,
                                                 IndexOfEntity(berries, o[2]))
                       /\ scoreboard' =
                            [scoreboard EXCEPT !.berries_eaten_by_snakes = @ + 1]
                       /\ last' = [op |-> "move_snakes",
                                   agent |-> snake.id, outcome |-> "ate",
                                   cell |-> next_position, victim |-> o]
                       /\ UNCHANGED rats
                  [] Kind(o) = "Rat" ->
                       /\ arena' = eat.arena
                       /\ snakes' = [snakes EXCEPT ![i] = eat.segmented]
                       /\ rats' = swap_remove(rats, IndexOfEntity(rats, o[2]))
                       /\ scoreboard' =
                            [scoreboard EXCEPT !.rats_eaten_by_snakes = @ + 1]
                       /\ last' = [op |-> "move_snakes",
                                   agent |-> snake.id, outcome |-> "ate",
                                   cell |-> next_position, victim |-> o]
                       /\ UNCHANGED berries
                  [] OTHER ->
                       /\ snakes' = [snakes EXCEPT ![i].ai = ai_clear(popped.ai)]
                       /\ last' = [op |-> "move_snakes",
                                   agent |-> snake.id, outcome |-> "blocked",
                                   cell |-> next_position, victim |-> o]
                       /\ UNCHANGED <<arena, berries, rats, scoreboard>>

move_snakes ==
    /\ Running
    /\ \E i \in DOMAIN snakes :
          /\ pop_front(snakes[i].ai.path).next = None \/ steps.moves < MaxMoves
          /\ move_snake(i)
          /\ steps' = IF pop_front(snakes[i].ai.path).next = None THEN steps
                      ELSE [steps EXCEPT !.moves = @ + 1]
    /\ panicked' = arena'.panic
    /\ UNCHANGED <<mongoose, grow_events, next_entity>>

\* A mongoose move that leaves the cell of the old tail occupied.
move_mongoose_segments_keep_tail(a, entity, segmented, delta_x, delta_y) ==
    LET head == <<segmented.head_position[1] + delta_x,
                  segmented.head_position[2] + delta_y>>
    IN [segmented |-> [segmented EXCEPT !.head_position = head,
                                        !.segments = ShiftSegments(@, head)],
        arena |-> set(a, head[1], head[2], <<"Mongoose", entity>>)]

\* move_mongoose_segments: the Segmented and the arena after the move.
move_mongoose_segments(a, entity, segmented, delta_x, delta_y) ==
    LET head == <<segmented.head_position[1] + delta_x,
                  segmented.head_position[2] + delta_y>>
        a1 == set(a, head[1], head[2], <<"Mongoose", entity>>)
        shifted == ShiftSegments(segmented.segments, head)
        gap_position == IF segmented.segments = <<>> THEN head
                        ELSE Last(segmented.segments).pos
    IN [segmented |-> [segmented EXCEPT !.head_position = head,
                                        !.segments = shifted],
        arena |-> unset(a1, gap_position[1], gap_position[2]).arena]

\* Arrow keys that also move the mongoose diagonally.
DirectionsDiagonal ==
    {<<-1, 0>>, <<0, 1>>, <<1, 0>>, <<0, -1>>, <<-1, -1>>, <<1, 1>>}

\* The arrow keys held, as (delta_x, delta_y), for LEFT, UP, RIGHT, DOWN.
Directions == {<<-1, 0>>, <<0, 1>>, <<1, 0>>, <<0, -1>>}

move_mongoose ==
    /\ Running
    /\ \E d \in Directions :
            LET delta_x == d[1]
                delta_y == d[2]
                head == mongoose.head_position
                x == head[1] + delta_x
                y == head[2] + delta_y
                o == occ(arena, x, y)
                at_edge == \/ head[1] = 0 /\ delta_x < 0
                           \/ head[2] = ARENA_HEIGHT - 1 /\ delta_y > 0
                           \/ head[1] = ARENA_WIDTH - 1 /\ delta_x > 0
                           \/ head[2] = 0 /\ delta_y < 0
                eat == move_mongoose_segments(unset(arena, x, y).arena, mongoose.id,
                                              mongoose, delta_x, delta_y)
            IN IF at_edge \/ Kind(o) \in {"Snake", "Mongoose"}
               THEN /\ last' = [op |-> "move_mongoose",
                                agent |-> mongoose.id,
                                outcome |-> IF at_edge THEN "edge" ELSE "blocked",
                                cell |-> <<x, y>>, victim |-> o]
                    /\ UNCHANGED <<arena, berries, rats, snakes, mongoose,
                                   scoreboard, grow_events, next_entity, steps,
                                   panicked>>
               ELSE /\ steps.moves < MaxMoves
                    /\ CASE Kind(o) = "None" ->
                              LET m == move_mongoose_segments(arena, mongoose.id,
                                                              mongoose, delta_x, delta_y)
                              IN /\ arena' = m.arena
                                 /\ mongoose' = m.segmented
                                 /\ last' = Progress
                                 /\ UNCHANGED <<berries, rats, scoreboard>>
                         [] Kind(o) = "Berry" ->
                              /\ arena' = eat.arena
                              /\ mongoose' = eat.segmented
                              /\ berries' = swap_remove(berries,
                                                        IndexOfEntity(berries, o[2]))
                              /\ scoreboard' = [scoreboard EXCEPT
                                                  !.berries_eaten_by_mongoose = @ + 1]
                              /\ last' = [op |-> "move_mongoose",
                                          agent |-> mongoose.id, outcome |-> "ate",
                                          cell |-> <<x, y>>, victim |-> o]
                              /\ UNCHANGED rats
                         [] Kind(o) = "Rat" ->
                              /\ arena' = eat.arena
                              /\ mongoose' = eat.segmented
                              /\ rats' = swap_remove(rats, IndexOfEntity(rats, o[2]))
                              /\ scoreboard' = [scoreboard EXCEPT
                                                  !.rats_eaten_by_mongoose = @ + 1]
                              /\ last' = [op |-> "move_mongoose",
                                          agent |-> mongoose.id, outcome |-> "ate",
                                          cell |-> <<x, y>>, victim |-> o]
                              /\ UNCHANGED berries
                    /\ steps' = [steps EXCEPT !.moves = @ + 1]
                    /\ panicked' = arena'.panic
                    /\ UNCHANGED <<snakes, grow_events, next_entity>>

\* grow_snakes: every GrowEvent read appends a segment at the tail position
\* of its snake; an event for an entity that is no snake panics.  The new
\* segment is spawned through Commands, which are applied after the system
\* has run: a second event for the same snake in the same run finds the
\* tail segment pushed for the first without a Position and panics, the
\* first segment already pushed.
RECURSIVE GrowAll(_, _, _)
GrowAll(ss, events, k) ==
    IF k > Len(events) THEN [snakes |-> ss, panic |-> FALSE]
    ELSE LET i == IndexOfEntity(ss, events[k])
         IN IF \/ i = 0
               \/ ss[i].segments = <<>>
               \/ \E j \in 1 .. k - 1 : events[j] = events[k]
            THEN [snakes |-> ss, panic |-> TRUE]
            ELSE GrowAll([ss EXCEPT ![i].segments =
                             Append(@, [id |-> Entity("Segment", ss[i].id[2],
                                                      Len(@) + 1),
                                        pos |-> Last(@).pos])],
                         events, k + 1)

grow_snakes ==
    /\ Running
    /\ LET g == GrowAll(snakes, grow_events, 1)
       IN /\ snakes' = g.snakes
          /\ panicked' = g.panic
          /\ last' = IF g.panic THEN [op |-> "grow_snakes", outcome |-> "panic"]
                     ELSE IF grow_events = <<>> THEN last ELSE Progress
    /\ grow_events' = <<>>
    /\ UNCHANGED <<arena, berries, rats, mongoose, scoreboard, next_entity,
                   steps>>

\* set_segment_sprites finds a direction for a pair of successive segments,
\* or takes them for a growth (same place) and leaves the body there
\* (continue 'things), or panics.
SpritePairOk(f, b) ==
    \/ f[1] - b[1] = -1
    \/ f[1] - b[1] = 1
    \/ f[2] - b[2] = -1
    \/ f[2] - b[2] = 1
    \/ f = b

\* The pairs of a body the loop looks at: those before and at its first
\* same-place pair.
SpritePairsSeen(segments) ==
    {k \in 1 .. Len(segments) - 1 :
        \A j \in 1 .. k - 1 : segments[j].pos # segments[j + 1].pos}

SpritesOk(segments) ==
    \A k \in SpritePairsSeen(segments) :
        SpritePairOk(segments[k].pos, segments[k + 1].pos)

\* let i_tail = segmented.segments.len() - 2 on a usize: for a body of fewer
\* than two segments the subtraction overflows, which panics in a debug
\* build and wraps in a release build.
Builds == {"debug", "release"}

TailIndexOk(build, segments) == build = "release" \/ Len(segments) >= 2

SpritesBodyOk(build, segments) ==
    TailIndexOk(build, segments) /\ SpritesOk(segments)

set_segment_sprites ==
    /\ Running
    /\ \E build \in Builds :
          panicked' = ~(/\ \A i \in DOMAIN snakes :
                              SpritesBodyOk(build, snakes[i].segments)
                        /\ mongoose # None =>
                              SpritesBodyOk(build, mongoose.segments))
    /\ last' = IF panicked'
               THEN [op |-> "set_segment_sprites", outcome |-> "panic"]
               ELSE last
    /\ UNCHANGED <<arena, berries, rats, snakes, mongoose, scoreboard,
                   grow_events, next_entity, steps>>

Next ==
    \/ spawn_rats
    \/ spawn_snakes
    \/ plan_rats
    \/ move_rats
    \/ plan_snakes
    \/ move_snakes
    \/ move_mongoose
    \/ grow_snakes
    \/ set_segment_sprites
    \/ spawn_berries

Spec == Init /\ [][Next]_vars

\* ------------------------------------------------------------------ planner harness
\* plan_path as a function of its inputs: a fresh arena in which berries
\* occupy a bounded set of cells and one rat stands on the start cell.
CellSeq == [k \in 1 .. ARENA_WIDTH * ARENA_HEIGHT |->
              <<(k - 1) \div ARENA_HEIGHT, (k - 1) % ARENA_HEIGHT>>]

RECURSIVE PlaceBerries(_, _, _, _)
PlaceBerries(a, bs, obstacles, k) ==
    IF k > Len(CellSeq) THEN [arena |-> a, berries |-> bs]
    ELSE IF CellSeq[k] \in obstacles
    THEN PlaceBerries(set(a, CellSeq[k][1], CellSeq[k][2], <<"Berry", Entity("Berry", Len(bs) + 1, 0)>>),
                      Append(bs, [id |-> Entity("Berry", Len(bs) + 1, 0), pos |-> CellSeq[k]]),
                      obstacles, k + 1)
    ELSE PlaceBerries(a, bs, obstacles, k + 1)

PlanInit ==
    \E obstacles \in {S \in SUBSET Cells : Cardinality(S) <= MaxObstacles} :
    \E start \in {c \in Cells \ obstacles : c[1] <= MaxStartX} :
        LET w == PlaceBerries(ArenaNew, <<>>, obstacles, 1)
            rat == Entity("Rat", 1, 0)
        IN /\ arena = set(w.arena, start[1], start[2], <<"Rat", rat>>)
           /\ berries = w.berries
           /\ rats = << [id |-> rat, pos |-> start, ai |-> NewAI] >>
           /\ snakes = <<>>
           /\ mongoose = None
           /\ scoreboard = NewScoreboard
           /\ grow_events = <<>>
           /\ next_entity = [NoEntities EXCEPT !.Rat = 2,
                                               !.Berry = Len(w.berries) + 1]
           /\ steps = NoSteps
           /\ panicked = FALSE
           /\ last = [op |-> "harness", outcome |-> "init"]

PlanCall ==
    /\ last.op = "harness"
    /\ \E goal \in Cells \ {rats[1].pos} :
         LET r == plan_path(rats[1].ai, rats[1].pos, goal, arena)
         IN /\ arena' = r.arena
            /\ rats' = [rats EXCEPT ![1].ai = r.ai]
            /\ last' = [op |-> "plan_path", outcome |-> "planned",
                        start |-> rats[1].pos, goal |-> goal,
                        before |-> arena]
    /\ UNCHANGED <<berries, snakes, mongoose, scoreboard, grow_events,
                   next_entity, steps, panicked>>

PlanNext == PlanCall

SpecPlan == PlanInit /\ [][PlanNext]_vars

\* ------------------------------------------------------------------ Arena harness
\* The Arena as an object: any sequence of at most MaxCalls calls of set,
\* unset, unset_maybe and AI::plan_path, on the cells of the corner window
\* 0 .. MaxCallCoord and on cells outside the arena.  Every set passes a
\* fresh occupant.  last.held is the occupant the calls so far have left on
\* each cell (the one passed to the latest set not followed by an unset),
\* last.sets the number of sets each cell has taken.
MaxCalls == 4
MaxCallCoord == 1

CallCells ==
    ((0 .. MaxCallCoord) \X (0 .. MaxCallCoord))
        \cup {<<-1, 0>>, <<0, -1>>, <<ARENA_WIDTH, 0>>, <<0, ARENA_HEIGHT>>}

ArenaInit ==
    /\ arena = ArenaNew
    /\ berries = <<>>
    /\ rats = <<>>
    /\ snakes = <<>>
    /\ mongoose = None
    /\ scoreboard = NewScoreboard
    /\ grow_events = <<>>
    /\ next_entity = NoEntities
    /\ steps = NoSteps
    /\ panicked = FALSE
    /\ last = [op |-> "Arena", outcome |-> "new", cell |-> None, ret |-> None,
               calls |-> 0, held |-> [c \in Cells |-> None],
               sets |-> [c \in Cells |-> 0]]

Callable == last.op = "Arena" /\ ~panicked /\ last.calls < MaxCalls

\* The bookkeeping of a call on cell c that returned ret and left occupant
\* o on c.
Called(name, c, ret, o, is_set) ==
    [op |-> "Arena", outcome |-> name, cell |-> c, ret |-> ret,
     calls |-> last.calls + 1,
     held |-> IF c \in Cells /\ ~arena'.panic
              THEN [last.held EXCEPT ![c] = o] ELSE last.held,
     sets |-> IF c \in Cells /\ ~arena'.panic /\ is_set
              THEN [last.sets EXCEPT ![c] = @ + 1] ELSE last.sets]

CallSet ==
    /\ Callable
    /\ \E c \in CallCells :
         LET o == <<"Berry", Entity("Berry", next_entity.Berry, 0)>>
         IN /\ arena' = set(arena, c[1], c[2], o)
            /\ last' = Called("set", c, None, o, TRUE)
    /\ next_entity' = [next_entity EXCEPT !.Berry = @ + 1]
    /\ panicked' = arena'.panic
    /\ UNCHANGED <<berries, rats, snakes, mongoose, scoreboard, grow_events, steps>>

CallUnset ==
    /\ Callable
    /\ \E c \in CallCells :
         LET r == unset(arena, c[1], c[2])
         IN /\ arena' = r.arena
            /\ last' = Called("unset", c, r.ret, None, FALSE)
    /\ panicked' = arena'.panic
    /\ UNCHANGED <<berries, rats, snakes, mongoose, scoreboard, grow_events,
                   next_entity, steps>>

CallUnsetMaybe ==
    /\ Callable
    /\ \E c \in CallCells :
         LET r == unset_maybe(arena, c[1], c[2])
         IN /\ arena' = r.arena
            /\ last' = Called("unset_maybe", c, r.ret, None, FALSE)
    /\ panicked' = arena'.panic
    /\ UNCHANGED <<berries, rats, snakes, mongoose, scoreboard, grow_events,
                   next_entity, steps>>

CallPlanPath ==
    /\ Callable
    /\ \E p \in CallCells \cap Cells : \E goal \in (CallCells \cap Cells) \ {p} :
         LET r == plan_path(NewAI, p, goal, arena)
         IN /\ arena' = r.arena
            /\ last' = [Called("plan_path", p, r.ai.path, last.held[p], FALSE)
                          EXCEPT !.held = last.held]
    /\ panicked' = arena'.panic
    /\ UNCHANGED <<berries, rats, snakes, mongoose, scoreboard, grow_events,
                   next_entity, steps>>

ArenaNext == CallSet \/ CallUnset \/ CallUnsetMaybe \/ CallPlanPath

SpecArena == ArenaInit /\ [][ArenaNext]_vars

\* ------------------------------------------------------------------ tick harness
\* The rat systems of the FixedUpdate chain, tick by tick: plan_rats runs
\* its loop over all rats and returns, then move_rats runs its loop over
\* all rats.  The timers are the environment: at the start of a tick it is
\* settled for which rats the plan timer and the move timer have finished.
\* steps.log lists the loop bodies the tick has run so far, as
\* <<"plan" or "move", rat id>>.
MaxTicks == 2
MaxTickCoord == 1

TickCells == (0 .. MaxTickCoord) \X (0 .. MaxTickCoord)

Timers == {"plan", "move"} \X (1 .. 2)

TickInit ==
    \E c1, c2 \in TickCells : \E berry \in TickCells \cup {None} :
    \E due \in SUBSET Timers :
        LET w == spawn_mongoose(ArenaNew)
            r1 == Entity("Rat", 1, 0)
            r2 == Entity("Rat", 2, 0)
            b1 == Entity("Berry", 1, 0)
            a1 == set(w.arena, c1[1], c1[2], <<"Rat", r1>>)
            a2 == set(a1, c2[1], c2[2], <<"Rat", r2>>)
        IN /\ c1 # c2 /\ berry \notin {c1, c2}
           /\ arena = IF berry = None THEN a2
                      ELSE set(a2, berry[1], berry[2], <<"Berry", b1>>)
           /\ berries = IF berry = None THEN <<>>
                        ELSE << [id |-> b1, pos |-> berry] >>
           /\ rats = << [id |-> r1, pos |-> c1, ai |-> NewAI],
                        [id |-> r2, pos |-> c2, ai |-> NewAI] >>
           /\ snakes = <<>>
           /\ mongoose = w.mongoose
           /\ scoreboard = NewScoreboard
           /\ grow_events = <<>>
           /\ next_entity = [NoEntities EXCEPT !.Rat = 3, !.Berry = 2]
           /\ steps = [system |-> "plan_rats", agent |-> 1, due |-> due,
                       tick |-> 1, log |-> <<>>]
           /\ panicked = FALSE
           /\ last = [op |-> "tick", outcome |-> "start"]

\* The first rat at or after index from whose timer of the kind has
\* finished, 0 when there is none.
NextDue(kind, from) ==
    LET is == {i \in from .. Len(rats) : <<kind, i>> \in steps.due}
    IN IF is = {} THEN 0 ELSE CHOOSE i \in is : \A j \in is : i <= j

TickPlanRat ==
    /\ ~panicked /\ steps.system = "plan_rats"
    /\ LET i == NextDue("plan", steps.agent)
       IN /\ i # 0
          /\ plan_rat(i)
          /\ steps' = [steps EXCEPT !.agent = i + 1,
                                    !.log = Append(@, <<"plan", rats[i].id>>)]
    /\ panicked' = arena'.panic
    /\ UNCHANGED <<berries, snakes, mongoose, scoreboard, grow_events,
                   next_entity>>

TickPlanRatsReturns ==
    /\ ~panicked /\ steps.system = "plan_rats"
    /\ NextDue("plan", steps.agent) = 0
    /\ steps' = [steps EXCEPT !.system = "move_rats", !.agent = 1]
    /\ last' = [op |-> "tick", outcome |-> "plan_rats"]
    /\ UNCHANGED <<arena, berries, rats, snakes, mongoose, scoreboard,
                   grow_events, next_entity, panicked>>

TickMoveRat ==
    /\ ~panicked /\ steps.system = "move_rats"
    /\ LET i == NextDue("move", steps.agent)
       IN /\ i # 0
          /\ move_rat(i)
          /\ steps' = [steps EXCEPT !.agent = i + 1,
                                    !.log = Append(@, <<"move", rats[i].id>>)]
    /\ panicked' = arena'.panic
    /\ UNCHANGED <<snakes, mongoose, grow_events, next_entity>>

TickMoveRatsReturns ==
    /\ ~panicked /\ steps.system = "move_rats"
    /\ NextDue("move", steps.agent) = 0
    /\ steps' = [steps EXCEPT !.system = "done", !.agent = 1]
    /\ last' = [op |-> "tick", outcome |-> "move_rats"]
    /\ UNCHANGED <<arena, berries, rats, snakes, mongoose, scoreboard,
                   grow_events, next_entity, panicked>>

TickStart ==
    /\ ~panicked /\ steps.system = "done" /\ steps.tick < MaxTicks
    /\ \E due \in SUBSET Timers :
          steps' = [system |-> "plan_rats", agent |-> 1, due |-> due,
                    tick |-> steps.tick + 1, log |-> <<>>]
    /\ last' = [op |-> "tick", outcome |-> "start"]
    /\ UNCHANGED <<arena, berries, rats, snakes, mongoose, scoreboard,
                   grow_events, next_entity, panicked>>

TickNext ==
    \/ TickPlanRat
    \/ TickPlanRatsReturns
    \/ TickMoveRat
    \/ TickMoveRatsReturns
    \/ TickStart

SpecTick == TickInit /\ [][TickNext]_vars

\* ------------------------------------------------------------------ selection harness
\* choose_random_entity as a function of its inputs: a snake whose head is
\* at any cell of a coarse lattice of the 20 x 20 arena of the program, up
\* to MaxChoiceBerries berries and MaxChoiceRats rats on other cells of the
\* same lattice, no two on one cell.  The two calls of plan_snakes are made: among the rats and
\* among the berries.  The occupancy grid plays no part in the function.
MaxChoiceBerries == 2
MaxChoiceRats == 1
LatticeStep == 4
LatticePoints == 3

LatticeCells ==
    {<<LatticeStep * i + i \div 2, LatticeStep * j + j \div 2>> :
        i \in 0 .. LatticePoints - 1, j \in 0 .. LatticePoints - 1}

\* The tables of up to n entities of a kind on lattice cells.
RECURSIVE EntitiesOnLattice(_, _)
EntitiesOnLattice(kind, n) ==
    IF n = 0 THEN {<<>>}
    ELSE LET fewer == EntitiesOnLattice(kind, n - 1)
         IN fewer \cup
            {Append(q, [id |-> Entity(kind, n, 0), pos |-> c]) :
               q \in {f \in fewer : Len(f) = n - 1},
               c \in LatticeCells}

ChoiceInit ==
    \E head \in LatticeCells :
    \E bs \in EntitiesOnLattice("Berry", MaxChoiceBerries) :
    \E rs \in EntitiesOnLattice("Rat", MaxChoiceRats) :
        /\ LET held == <<head>> \o [i \in DOMAIN bs |-> bs[i].pos]
                           \o [i \in DOMAIN rs |-> rs[i].pos]
           IN \A i, j \in DOMAIN held : i # j => held[i] # held[j]
        /\ arena = ArenaNew
        /\ berries = bs
        /\ rats = [i \in DOMAIN rs |-> [id |-> rs[i].id, pos |-> rs[i].pos,
                                        ai |-> NewAI]]
        /\ snakes = << [id |-> Entity("Snake", 1, 0), head_position |-> head,
                        segments |-> << [id |-> Entity("Segment", 1, 1),
                                         pos |-> head] >>,
                        ai |-> NewAI] >>
        /\ mongoose = None
        /\ scoreboard = NewScoreboard
        /\ grow_events = <<>>
        /\ next_entity = NoEntities
        /\ steps = NoSteps
        /\ panicked = FALSE
        /\ last = [op |-> "harness", outcome |-> "init"]

\* The record of a call: the kind asked for and the target returned.
Chosen(kind, target) ==
    [op |-> "choose_random_entity", outcome |-> "returned", kind |-> kind,
     ret |-> target]

ChooseRat ==
    /\ last.op = "harness"
    /\ \E target \in choose_random_entity(rats, snakes[1].head_position) :
          last' = Chosen("Rat", target)
    /\ UNCHANGED <<arena, berries, rats, snakes, mongoose, scoreboard,
                   grow_events, next_entity, steps, panicked>>

ChooseBerry ==
    /\ last.op = "harness"
    /\ \E target \in choose_random_entity(berries, snakes[1].head_position) :
          last' = Chosen("Berry", target)
    /\ UNCHANGED <<arena, berries, rats, snakes, mongoose, scoreboard,
                   grow_events, next_entity, steps, panicked>>

ChoiceNext == ChooseRat \/ ChooseBerry

SpecChoice == ChoiceInit /\ [][ChoiceNext]_vars

\* ------------------------------------------------------------------ wander harness
\* choose_random_unocc as a function of its inputs, on the 20 x 20 arena of
\* the program: a rat on a cell whose coordinates are at, next to and away
\* from the distances at which the clamps of the box begin to bind, and at
\* most one berry at one of a few offsets from the rat, inside the box (on
\* its corners and next to the rat) and just outside it.  Every value of a
\* draw can be returned.  The graph of the arena plays no part in the
\* function and is left empty.
SourceArenaWidth == 20
SourceArenaHeight == 20
WanderRngRange == 9

SourceCells == (0 .. SourceArenaWidth - 1) \X (0 .. SourceArenaHeight - 1)

WanderCoords == {0, 3, 4, 10, 15, 16, 19}

WanderOffsets == {<<1, 0>>, <<0, -1>>, <<-4, 4>>, <<4, -4>>, <<-5, 0>>, <<0, 5>>}

WanderInit ==
    \E p \in WanderCoords \X WanderCoords :
    \E bs \in {<<>>} \cup
              {<< [id |-> Entity("Berry", 1, 0),
                   pos |-> <<p[1] + d[1], p[2] + d[2]>>] >> :
                 d \in {e \in WanderOffsets :
                           <<p[1] + e[1], p[2] + e[2]>> \in SourceCells}} :
        /\ arena = [occ |-> [c \in SourceCells |->
                               IF c = p THEN <<"Rat", Entity("Rat", 1, 0)>>
                               ELSE IF bs # <<>> /\ c = bs[1].pos
                               THEN <<"Berry", bs[1].id>>
                               ELSE None],
                    graph |-> <<>>, panic |-> FALSE]
        /\ berries = bs
        /\ rats = << [id |-> Entity("Rat", 1, 0), pos |-> p, ai |-> NewAI] >>
        /\ snakes = <<>>
        /\ mongoose = None
        /\ scoreboard = NewScoreboard
        /\ grow_events = <<>>
        /\ next_entity = [Rat |-> 2, Berry |-> Len(bs) + 1, Snake |-> 1]
        /\ steps = NoSteps
        /\ panicked = FALSE
        /\ last = [op |-> "harness", outcome |-> "init"]

\* The call plan_rats makes for a wander roll, and the record of what it
\* returned.
ChooseUnocc ==
    /\ last.op = "harness"
    /\ \E target \in choose_random_unocc_in(SourceArenaWidth, SourceArenaHeight,
                                            WanderRngRange, rats[1].pos,
                                            arena.occ) :
          last' = [op |-> "choose_random_unocc", outcome |-> "returned",
                   ret |-> target]
    /\ UNCHANGED <<arena, berries, rats, snakes, mongoose, scoreboard,
                   grow_events, next_entity, steps, panicked>>

WanderNext == ChooseUnocc

SpecWander == WanderInit /\ [][WanderNext]_vars

\* ------------------------------------------------------------------ route harness
\* One rat and one snake walking their routes to the end: after Startup, a
\* rat spawned on a cell of the corner window and a two-segment snake
\* spawned on the left side.  plan_rats and plan_snakes run at most
\* MaxRoutePlans planning steps that roll; move_rats and move_snakes run
\* whenever the agent's move timer has finished, which happens again and
\* again: the timers are driven by the fixed clock (fairness of the two
\* movement actions).  The mongoose stands still.
MaxRoutePlans == 2

RouteInit ==
    \E c \in TickCells : \E p \in gen_range(0, ARENA_HEIGHT - 1) :
        LET w == spawn_mongoose(ArenaNew)
            r1 == Entity("Rat", 1, 0)
            s == SnakeSide(0, p)
            segs == [k \in 1 .. 2 |->
                       [id |-> Entity("Segment", 1, k),
                        pos |-> <<s[1] + (k - 1) * s[3], s[2] + (k - 1) * s[4]>>]]
            a1 == set(w.arena, c[1], c[2], <<"Rat", r1>>)
        IN /\ c # <<s[1], s[2]>>
           /\ arena = SetSegments(a1, segs, 1)
           /\ berries = <<>>
           /\ rats = << [id |-> r1, pos |-> c, ai |-> NewAI] >>
           /\ snakes = << [id |-> Entity("Snake", 1, 0),
                           head_position |-> <<s[1], s[2]>>,
                           segments |-> segs, ai |-> NewAI] >>
           /\ mongoose = w.mongoose
           /\ scoreboard = NewScoreboard
           /\ grow_events = <<>>
           /\ next_entity = [Rat |-> 2, Berry |-> 1, Snake |-> 2]
           /\ steps = NoSteps
           /\ panicked = FALSE
           /\ last = Progress

RoutePlanRat ==
    /\ ~panicked
    /\ \E i \in DOMAIN rats :
          /\ busy(rats[i].ai) \/ steps.plans < MaxRoutePlans
          /\ plan_rat(i)
    /\ steps' = [steps EXCEPT !.plans = IF last'.outcome = "busy" THEN @
                                        ELSE @ + 1]
    /\ panicked' = arena'.panic
    /\ UNCHANGED <<berries, snakes, mongoose, scoreboard, grow_events,
                   next_entity>>

RoutePlanSnake ==
    /\ ~panicked
    /\ \E i \in DOMAIN snakes :
          /\ busy(snakes[i].ai) \/ steps.plans < MaxRoutePlans
          /\ plan_snake(i)
    /\ steps' = [steps EXCEPT !.plans = IF last'.outcome = "busy" THEN @
                                        ELSE @ + 1]
    /\ panicked' = arena'.panic
    /\ UNCHANGED <<berries, rats, mongoose, scoreboard, grow_events,
                   next_entity>>

RouteMoveRat ==
    /\ ~panicked
    /\ \E i \in DOMAIN rats :
          /\ move_rat(i)
          /\ steps' = IF pop_front(rats[i].ai.path).next = None THEN steps
                      ELSE [steps EXCEPT !.moves = @ + 1]
    /\ panicked' = arena'.panic
    /\ UNCHANGED <<snakes, mongoose, grow_events, next_entity>>

RouteMoveSnake ==
    /\ ~panicked
    /\ \E i \in DOMAIN snakes :
          /\ move_snake(i)
          /\ steps' = IF pop_front(snakes[i].ai.path).next = None THEN steps
                      ELSE [steps EXCEPT !.moves = @ + 1]
    /\ panicked' = arena'.panic
    /\ UNCHANGED <<mongoose, grow_events, next_entity>>

RouteNext == RoutePlanRat \/ RoutePlanSnake \/ RouteMoveRat \/ RouteMoveSnake

SpecRoute ==
    /\ RouteInit
    /\ [][RouteNext]_vars
    /\ WF_vars(RouteMoveRat)
    /\ WF_vars(RouteMoveSnake)

\* ------------------------------------------------------------------ spawn harness
\* The spawn systems alone, as often as their repeating timers finish: no
\* key is pressed, and no rat or snake has been given a route.  The
\* rejection loop of a spawn system draws cells until one is free; it ends
\* on a free cell of the cells it draws from, and never ends when none of
\* them is free.  FillDraws bounds the free cells a loop can end on to the
\* first ones in the order of CellSeq, and FillMaxSnakes the snakes spawned.
FillDraws == 1
FillMaxSnakes == 1

CellRank(c) == CHOOSE k \in DOMAIN CellSeq : CellSeq[k] = c

\* The cells of S the loop can end on.
LowestCells(S) ==
    {c \in S : Cardinality({d \in S : CellRank(d) < CellRank(c)}) < FillDraws}

\* The free cells among the draws of spawn_berries and spawn_rats.
FreeCells(a) == {c \in Cells : ~isset(a, c[1], c[2])}

\* The draws (side, p) of spawn_snakes, and the cell of a draw.
SnakeDraws == (0 .. 3) \X (0 .. ARENA_HEIGHT - 2)

SnakeCell(d) == <<SnakeSide(d[1], d[2])[1], SnakeSide(d[1], d[2])[2]>>

FreeSnakeCells(a) ==
    {SnakeCell(d) : d \in {e \in SnakeDraws : ~isset(a, SnakeCell(e)[1], SnakeCell(e)[2])}}

\* The loop of a spawn system never breaks.
Spins(system) == [op |-> system, outcome |-> "spins"]

FillRunning == ~panicked /\ last.outcome # "spins"

FillSpawnBerries ==
    /\ FillRunning
    /\ IF FreeCells(arena) = {}
       THEN /\ last' = Spins("spawn_berries")
            /\ UNCHANGED <<arena, berries, next_entity, panicked>>
       ELSE /\ \E c \in LowestCells(FreeCells(arena)) :
                 LET berry == Entity("Berry", next_entity.Berry, 0)
                 IN /\ arena' = set(arena, c[1], c[2], <<"Berry", berry>>)
                    /\ berries' = Append(berries, [id |-> berry, pos |-> c])
            /\ next_entity' = [next_entity EXCEPT !.Berry = @ + 1]
            /\ panicked' = arena'.panic
            /\ last' = Progress
    /\ UNCHANGED <<rats, snakes, mongoose, scoreboard, grow_events, steps>>

FillSpawnRats ==
    /\ FillRunning
    /\ IF FreeCells(arena) = {}
       THEN /\ last' = Spins("spawn_rats")
            /\ UNCHANGED <<arena, rats, next_entity, panicked>>
       ELSE /\ \E c \in LowestCells(FreeCells(arena)) :
                 LET rat == Entity("Rat", next_entity.Rat, 0)
                 IN /\ arena' = set(arena, c[1], c[2], <<"Rat", rat>>)
                    /\ rats' = Append(rats, [id |-> rat, pos |-> c, ai |-> NewAI])
            /\ next_entity' = [next_entity EXCEPT !.Rat = @ + 1]
            /\ panicked' = arena'.panic
            /\ last' = Progress
    /\ UNCHANGED <<berries, snakes, mongoose, scoreboard, grow_events, steps>>

FillSpawnSnakes ==
    /\ FillRunning
    /\ IF FreeSnakeCells(arena) = {}
       THEN /\ last' = Spins("spawn_snakes")
            /\ UNCHANGED <<arena, snakes, next_entity, panicked>>
       ELSE /\ Len(snakes) < FillMaxSnakes
            /\ \E n \in gen_shape(0, 4), d \in SnakeDraws :
                 LET s == SnakeSide(d[1], d[2])
                 IN /\ SnakeCell(d) \in LowestCells(FreeSnakeCells(arena))
                    /\ spawn_snake(s[1], s[2], n, s[3], s[4])
            /\ panicked' = arena'.panic
            /\ last' = Progress
    /\ UNCHANGED <<berries, rats, mongoose, scoreboard, grow_events, steps>>

FillNext == FillSpawnBerries \/ FillSpawnRats \/ FillSpawnSnakes

SpecFill == Init /\ [][FillNext]_vars

\* ------------------------------------------------------------------ claims
\* Cells reachable from cell s in at most k grid steps through cells that
\* are unoccupied in occupancy o, the cells in free counting as unoccupied.
GridNeighbours(u) ==
    {<<u[1] + 1, u[2]>>, <<u[1], u[2] + 1>>, <<u[1] - 1, u[2]>>, <<u[1], u[2] - 1>>}
        \cap Cells

RECURSIVE Within(_, _, _, _)
Within(o, free, s, k) ==
    IF k = 0 THEN {s}
    ELSE UNION { {u} \cup {c \in GridNeighbours(u) : o[c] = None \/ c \in free} :
                 u \in Within(o, free, s, k - 1) }

\* The edges of graph g between cells u and v, in either direction.
EdgesBetween(g, u, v) ==
    {k \in DOMAIN g : g[k] = <<u, v>> \/ g[k] = <<v, u>>}

\* C1: in every arena state the program reaches, two grid-adjacent cells
\* are joined by an edge exactly when both are unoccupied, and every edge
\* joins two grid-adjacent cells of the arena.
C1_EdgeIffBothUnoccupied ==
    ~arena.panic =>
        /\ \A u, v \in Cells :
              Adjacent(u, v) =>
                 ((EdgesBetween(arena.graph, u, v) # {})
                    <=> (arena.occ[u] = None /\ arena.occ[v] = None))
        /\ \A k \in DOMAIN arena.graph :
              /\ arena.graph[k][1] \in Cells /\ arena.graph[k][2] \in Cells
              /\ Adjacent(arena.graph[k][1], arena.graph[k][2])

\* A cell was occupied and freed again, one of its neighbours is occupied
\* and another is free.
C1_Witness ==
    /\ last.op = "Arena" /\ ~arena.panic
    /\ last.sets[<<0, 0>>] = 1 /\ arena.occ[<<0, 0>>] = None
    /\ arena.occ[<<1, 0>>] # None /\ arena.occ[<<0, 1>>] = None
    /\ EdgesBetween(arena.graph, <<0, 0>>, <<0, 1>>) # {}
    /\ EdgesBetween(arena.graph, <<0, 0>>, <<1, 0>>) = {}

PlanDone == last.op = "plan_path"
PlanRoute == rats[1].ai.path

\* C2: the route plan_path stores has at most MAX_PATH_LENGTH waypoints.
C2_RouteAtMostL ==
    \A i \in DOMAIN rats : Len(rats[i].ai.path) <= MAX_PATH_LENGTH

\* What the code guarantees instead: at most MAX_PATH_LENGTH + 1 waypoints.
RouteAtMostLPlusOne ==
    \A i \in DOMAIN rats : Len(rats[i].ai.path) <= MAX_PATH_LENGTH + 1

\* C3: a non-empty route is connected and collision-free: it starts next to
\* start, each waypoint is next to the previous one, it ends at goal, no
\* cell repeats (start included), every waypoint but goal was unoccupied at
\* call time; and with row y=2 occupied except (2,2), a route from below the
\* row to above it passes through (2,2).
RowTwoWall(o) ==
    \A x \in 0 .. ARENA_WIDTH - 1 : (o[<<x, 2>>] # None) <=> (x # 2)

C3_RouteConnectedCollisionFree ==
    (PlanDone /\ PlanRoute # <<>>) =>
        LET full == <<last.start>> \o PlanRoute
        IN /\ \A i \in 1 .. Len(full) - 1 : Adjacent(full[i], full[i + 1])
           /\ Last(PlanRoute) = last.goal
           /\ \A i, j \in 1 .. Len(full) : i # j => full[i] # full[j]
           /\ \A i \in 1 .. Len(PlanRoute) - 1 :
                 last.before.occ[PlanRoute[i]] = None
           /\ (RowTwoWall(last.before.occ) /\ last.start[2] < 2 /\ last.goal[2] > 2)
                 => <<2, 2>> \in Range(PlanRoute)

C3_Witness ==
    /\ PlanDone /\ PlanRoute # <<>>
    /\ RowTwoWall(last.before.occ) /\ last.start[2] < 2 /\ last.goal[2] > 2
    /\ <<2, 2>> \in Range(PlanRoute)

\* C5: unset on an occupied cell of the arena returns the occupant passed to
\* the latest set on that cell that no unset followed, and leaves the cell
\* unoccupied.
C5_UnsetReturnsLastSet ==
    [][(/\ last'.op = "Arena" /\ last'.outcome = "unset"
        /\ isset(arena, last'.cell[1], last'.cell[2]))
       => (/\ last'.ret = last.held[last'.cell]
           /\ last'.ret # None
           /\ ~arena'.panic
           /\ arena'.occ[last'.cell] = None)]_vars

\* The second occupant set on a cell came back from unset.
C5_Witness ==
    /\ last.op = "Arena" /\ last.outcome = "unset" /\ ~arena.panic
    /\ last.cell \in Cells
    /\ last.sets[last.cell] = 2
    /\ last.ret = <<"Berry", Entity("Berry", 2, 0)>>
    /\ arena.occ[last.cell] = None

\* C4: the route is non-empty exactly when some path of at most
\* MAX_PATH_LENGTH steps joins start and goal through unoccupied cells
\* (start and goal counting as free).
C4_RouteIffPathWithinL ==
    PlanDone =>
        ((PlanRoute # <<>>) <=>
         (last.goal \in Within(last.before.occ, {last.start, last.goal},
                               last.start, MAX_PATH_LENGTH)))

RouteIffPathWithinLPlusOne ==
    PlanDone =>
        ((PlanRoute # <<>>) <=>
         (last.goal \in Within(last.before.occ, {last.start, last.goal},
                               last.start, MAX_PATH_LENGTH + 1)))

\* ------------------------------------------------------------------ claims on moves
\* Body bn and arena an are body b and arena a after a follow-the-leader
\* shift into cell c.
FollowedLeader(b, c, bn, a, an) ==
    /\ Len(bn.segments) = Len(b.segments)
    /\ bn.head_position = c
    /\ bn.segments[1].pos = c
    /\ \A k \in 2 .. Len(b.segments) : bn.segments[k].pos = b.segments[k - 1].pos
    /\ \A k \in DOMAIN b.segments : bn.segments[k].id = b.segments[k].id
    /\ occ(a, c[1], c[2]) = None
    /\ occ(an, c[1], c[2]) # None
    /\ occ(an, Last(b.segments).pos[1], Last(b.segments).pos[2]) = None
    /\ \A d \in Cells \ {c, Last(b.segments).pos} : an.occ[d] = a.occ[d]

\* C6: a move of a snake or of the mongoose into an empty cell c is a
\* follow-the-leader shift: the first segment takes c, every other segment
\* takes the cell the segment before it held, c becomes occupied, the cell
\* of the former last segment becomes unoccupied, and the number of
\* segments is unchanged.
C6_FollowTheLeader ==
    [][/\ \A i \in DOMAIN snakes :
             (/\ snakes'[i].head_position # snakes[i].head_position
              /\ occ(arena, snakes'[i].head_position[1],
                      snakes'[i].head_position[2]) = None)
             => FollowedLeader(snakes[i], Head(snakes[i].ai.path), snakes'[i],
                               arena, arena')
       /\ (/\ mongoose'.head_position # mongoose.head_position
           /\ occ(arena, mongoose'.head_position[1],
                   mongoose'.head_position[2]) = None)
          => (/\ Adjacent(mongoose.head_position, mongoose'.head_position)
              /\ FollowedLeader(mongoose, mongoose'.head_position, mongoose',
                                arena, arena'))]_vars

\* The three-segment mongoose [(2,2),(3,2),(3,1)] has moved to (1,2), and a
\* snake has moved so that its second segment has entered the arena.
C6_Witness ==
    /\ mongoose # None
    /\ [k \in DOMAIN mongoose.segments |-> mongoose.segments[k].pos]
          = << <<1, 2>>, <<2, 2>>, <<3, 2>> >>
    /\ arena.occ[<<1, 2>>] # None /\ arena.occ[<<3, 1>>] = None
    /\ \E i \in DOMAIN snakes :
          /\ snakes[i].segments[2].pos \in Cells
          /\ snakes[i].segments[1].pos = snakes[i].head_position
          /\ arena.occ[snakes[i].head_position] = <<"Snake", snakes[i].id>>

\* C7: a move of a snake that consumes a berry or a rat issues a grow
\* request for that snake (on which grow_snakes appends a segment, the next
\* move then keeping the tail cell).
C7_EatingIssuesGrowRequest ==
    (last.op = "move_snakes" /\ last.outcome = "ate")
        => \E k \in DOMAIN grow_events : grow_events[k] = last.agent

\* The kinds a mover eats, the kinds that block it, and its counter for a
\* kind it eats.
EdibleBy(op) == IF op = "move_rats" THEN {"Berry"} ELSE {"Berry", "Rat"}

BlockingFor(op) ==
    IF op = "move_rats" THEN {"Rat", "Snake", "Mongoose"} ELSE {"Snake", "Mongoose"}

CounterOf(op, kind) ==
    CASE op = "move_rats" -> "berries_eaten_by_rats"
      [] op = "move_snakes" /\ kind = "Berry" -> "berries_eaten_by_snakes"
      [] op = "move_snakes" /\ kind = "Rat" -> "rats_eaten_by_snakes"
      [] op = "move_mongoose" /\ kind = "Berry" -> "berries_eaten_by_mongoose"
      [] op = "move_mongoose" /\ kind = "Rat" -> "rats_eaten_by_mongoose"

\* After the step the mover id of system op stands on cell c.
MoverAt(op, id, c) ==
    CASE op = "move_rats" ->
           /\ \E i \in DOMAIN rats' : rats'[i].id = id /\ rats'[i].pos = c
           /\ arena'.occ[c] = <<"Rat", id>>
      [] op = "move_snakes" ->
           /\ \E i \in DOMAIN snakes' :
                 /\ snakes'[i].id = id /\ snakes'[i].head_position = c
                 /\ snakes'[i].segments[1].pos = c
           /\ arena'.occ[c] = <<"Snake", id>>
      [] op = "move_mongoose" ->
           /\ mongoose'.id = id /\ mongoose'.head_position = c
           /\ mongoose'.segments[1].pos = c
           /\ arena'.occ[c] = <<"Mongoose", id>>

\* The rats and snakes as agents: kind, id, position, AI.
AgentsOf(rs, ss) ==
    {[kind |-> "Rat", id |-> rs[i].id, pos |-> rs[i].pos, ai |-> rs[i].ai] :
        i \in DOMAIN rs}
    \cup {[kind |-> "Snake", id |-> ss[i].id, pos |-> ss[i].head_position,
           ai |-> ss[i].ai] : i \in DOMAIN ss}

\* The step is the movement step of agent b, which has a next waypoint.
MovesNow(b) ==
    /\ b.ai.path # <<>>
    /\ steps'.moves = steps.moves + 1
    /\ \E bn \in AgentsOf(rats', snakes') : bn.id = b.id /\ bn.ai.path # b.ai.path

\* The step left agent b where it was, without route and target.
Aborted(b) ==
    \E bn \in AgentsOf(rats', snakes') :
        /\ bn.id = b.id /\ bn.pos = b.pos
        /\ bn.ai.path = <<>> /\ bn.ai.target = None

\* C8: a step onto a cell that holds a kind the mover eats removes the
\* victim from the arena and despawns it, adds 1 to the counter of the
\* (mover, victim) pair and to no other, and leaves the mover on the cell.
C8_EatingScoresAndOccupies ==
    [][/\ (vars' # vars /\ last'.outcome = "ate") =>
            LET c == last'.cell
                v == last'.victim
            IN /\ occ(arena, c[1], c[2]) = v
               /\ v[1] \in EdibleBy(last'.op)
               /\ \A d \in Cells : arena'.occ[d] # v
               /\ IndexOfEntity(berries', v[2]) = 0
               /\ IndexOfEntity(rats', v[2]) = 0
               /\ Len(berries') + Len(rats') = Len(berries) + Len(rats) - 1
               /\ scoreboard' =
                     [scoreboard EXCEPT ![CounterOf(last'.op, v[1])] = @ + 1]
               /\ MoverAt(last'.op, last'.agent, c)
       /\ \A b \in AgentsOf(rats, snakes) :
            LET op == IF b.kind = "Rat" THEN "move_rats" ELSE "move_snakes"
            IN (/\ MovesNow(b)
                /\ Kind(occ(arena, Head(b.ai.path)[1], Head(b.ai.path)[2]))
                      \in EdibleBy(op))
               => (last'.outcome = "ate" /\ last'.op = op /\ last'.agent = b.id
                   /\ last'.cell = Head(b.ai.path))
       /\ (scoreboard' # scoreboard) => last'.outcome = "ate"]_vars

\* A snake has eaten a rat.
C8_Witness ==
    /\ last.outcome = "ate" /\ last.op = "move_snakes" /\ last.victim[1] = "Rat"
    /\ scoreboard.rats_eaten_by_snakes = 1
    /\ arena.occ[last.cell] = <<"Snake", last.agent>>

\* C9: a move of a rat or a snake whose next waypoint holds a kind that
\* blocks it clears the route and the target of the agent and changes no
\* position, segment, occupancy, edge or counter; a move of the mongoose
\* into a cell of a snake or of the mongoose changes nothing.
C9_BlockedMoveOnlyClears ==
    [][/\ (vars' # vars /\ last'.outcome = "blocked") =>
            LET c == last'.cell
                v == last'.victim
            IN /\ occ(arena, c[1], c[2]) = v
               /\ v[1] \in BlockingFor(last'.op)
               /\ UNCHANGED <<arena, scoreboard, berries, mongoose, grow_events>>
               /\ last'.op = "move_rats" =>
                     /\ snakes' = snakes
                     /\ \E i \in DOMAIN rats :
                           /\ rats[i].id = last'.agent
                           /\ Head(rats[i].ai.path) = c
                           /\ rats' = [rats EXCEPT ![i].ai.path = <<>>,
                                                   ![i].ai.target = None]
               /\ last'.op = "move_snakes" =>
                     /\ rats' = rats
                     /\ \E i \in DOMAIN snakes :
                           /\ snakes[i].id = last'.agent
                           /\ Head(snakes[i].ai.path) = c
                           /\ snakes' = [snakes EXCEPT ![i].ai.path = <<>>,
                                                       ![i].ai.target = None]
               /\ last'.op = "move_mongoose" =>
                     /\ rats' = rats /\ snakes' = snakes
                     /\ Adjacent(mongoose.head_position, c)
       /\ \A b \in AgentsOf(rats, snakes) :
            LET op == IF b.kind = "Rat" THEN "move_rats" ELSE "move_snakes"
            IN (/\ MovesNow(b)
                /\ Kind(occ(arena, Head(b.ai.path)[1], Head(b.ai.path)[2]))
                      \in BlockingFor(op))
               => (last'.outcome = "blocked" /\ last'.op = op
                   /\ last'.agent = b.id /\ last'.cell = Head(b.ai.path))]_vars

\* A snake with a target was blocked by the mongoose and stands where it
\* stood, without route and target.
C9_Witness ==
    /\ last.outcome = "blocked" /\ last.op = "move_snakes"
    /\ last.victim[1] = "Mongoose"
    /\ \E i \in DOMAIN snakes :
          /\ snakes[i].id = last.agent
          /\ snakes[i].ai = NewAI
          /\ Adjacent(snakes[i].head_position, last.cell)

\* Agent a stands on cell c, the end of its route, and the route of agent b
\* ends at c with c as its next waypoint.
SecondArrives(a, b, c) ==
    /\ a.id # b.id
    /\ a.pos = c /\ a.ai.path = <<>> /\ a.ai.target = <<"Position", c>>
    /\ b.ai.path = <<c>>

\* C10: of two agents with routes ending at the same free cell, the one
\* that moves second finds the cell occupied by the first and aborts its
\* move: its route is cleared and it keeps its position.
C10_SecondAborts ==
    [][\A a, b \in AgentsOf(rats, snakes) :
          (SecondArrives(a, b, a.pos) /\ MovesNow(b)) => Aborted(b)]_vars

\* C10 as the code has it: the second aborts unless it is a snake and the
\* first is a rat; then the snake eats the rat and takes the cell.
C10_SecondAbortsOrEats ==
    [][\A a, b \in AgentsOf(rats, snakes) :
          (SecondArrives(a, b, a.pos) /\ MovesNow(b)) =>
             IF b.kind = "Snake" /\ a.kind = "Rat"
             THEN /\ MoverAt("move_snakes", b.id, a.pos)
                  /\ IndexOfEntity(rats', a.id) = 0
                  /\ scoreboard' = [scoreboard EXCEPT !.rats_eaten_by_snakes = @ + 1]
             ELSE Aborted(b) /\ UNCHANGED arena]_vars

\* A rat was blocked on the cell that another rat, whose target it is,
\* holds.
C10_Witness ==
    /\ last.outcome = "blocked" /\ last.op = "move_rats"
    /\ last.victim[1] = "Rat"
    /\ \E i, j \in DOMAIN rats :
          /\ rats[i].id = last.victim[2] /\ rats[i].pos = last.cell
          /\ rats[i].ai.target = <<"Position", last.cell>>
          /\ rats[j].id = last.agent /\ rats[j].ai = NewAI
          /\ Adjacent(rats[j].pos, last.cell)

\* ------------------------------------------------------------------ claims on the world
\* The live entities standing on cell c, as <<kind, creature>>: a berry, a
\* rat, or the creature one of whose segments is on c.
Holders(c) ==
    {<<"Berry", berries[i].id>> : i \in {j \in DOMAIN berries : berries[j].pos = c}}
    \cup {<<"Rat", rats[i].id>> : i \in {j \in DOMAIN rats : rats[j].pos = c}}
    \cup {<<"Snake", snakes[i].id>> :
            i \in {j \in DOMAIN snakes :
                     \E k \in DOMAIN snakes[j].segments :
                         snakes[j].segments[k].pos = c}}
    \cup (IF mongoose # None
             /\ \E k \in DOMAIN mongoose.segments : mongoose.segments[k].pos = c
          THEN {<<"Mongoose", mongoose.id>>} ELSE {})

\* C11: no cell of the arena is held by two distinct live entities, a cell
\* is occupied exactly when a live berry, a live rat or a body segment
\* stands on it, and the occupant has the kind of that entity.
C11_OneOccupantPerCell ==
    \A c \in Cells :
        /\ Cardinality(Holders(c)) <= 1
        /\ (arena.occ[c] # None) <=> (Holders(c) # {})
        /\ \A h \in Holders(c) : arena.occ[c] # None /\ arena.occ[c][1] = h[1]

\* A snake has moved its second segment into the arena, the mongoose has
\* left its spawn cell, and a rat is alive.
C11_Witness ==
    /\ \E i \in DOMAIN snakes : snakes[i].segments[2].pos \in Cells
    /\ mongoose.head_position # <<ARENA_WIDTH \div 2, ARENA_HEIGHT \div 2>>
    /\ Cardinality({c \in Cells : arena.occ[c] # None}) >= 5

\* C12: no state of the simulation is a fatal failure: no Arena::set on an
\* occupied cell, no Arena::unset on a free cell, no planning or movement
\* step that misses a node, an entity or a segment position, no panic of
\* grow_snakes or set_segment_sprites.
C12_NoFatalViolation ==
    ~panicked /\ ~arena.panic

\* A rat found its next waypoint taken by a snake and the simulation goes
\* on.
C12_Witness ==
    /\ last.op = "move_rats" /\ last.outcome = "blocked"
    /\ last.victim[1] = "Snake"
    /\ ~panicked /\ ~arena.panic
    /\ \E i \in DOMAIN rats : rats[i].id = last.agent /\ rats[i].ai = NewAI

\* ------------------------------------------------------------------ claims on Arena calls
\* C13: Arena::set on an occupied cell of the arena and Arena::unset on a
\* free cell of the arena panic, and leave occupancy and graph as they
\* were before the call.
C13_FailFastBeforeMutating ==
    [][(/\ last'.op = "Arena" /\ last'.cell \in Cells
        /\ \/ last'.outcome = "set" /\ arena.occ[last'.cell] # None
           \/ last'.outcome = "unset" /\ arena.occ[last'.cell] = None)
       => (/\ panicked' /\ arena'.panic
           /\ arena'.occ = arena.occ
           /\ arena'.graph = arena.graph)]_vars

\* A set on a cell that held a berry has panicked, and the berry is still
\* the occupant.
C13_Witness ==
    /\ last.op = "Arena" /\ last.outcome = "set" /\ last.cell \in Cells
    /\ panicked
    /\ arena.occ[last.cell] = <<"Berry", Entity("Berry", 1, 0)>>
    /\ last.held[last.cell] = arena.occ[last.cell]
    /\ last.sets[last.cell] = 1

\* The coordinates outside the arena the calls are made with.
OutOfRange == CallCells \ Cells

\* C14: for a coordinate outside the arena, set changes nothing, unset and
\* unset_maybe return none and change nothing, isset answers false and occ
\* answers none, and none of them panics.
C14_OutOfRangeIsNoOp ==
    [][/\ \A c \in OutOfRange :
             /\ ~isset(arena, c[1], c[2])
             /\ occ(arena, c[1], c[2]) = None
       /\ (/\ last'.op = "Arena" /\ last'.cell \in OutOfRange
           /\ last'.outcome \in {"set", "unset", "unset_maybe"})
          => (/\ arena' = arena
              /\ last'.ret = None
              /\ ~panicked')]_vars

\* unset_maybe was called outside the arena while a cell of the arena was
\* occupied.
C14_Witness ==
    /\ last.op = "Arena" /\ last.outcome = "unset_maybe"
    /\ last.cell = <<-1, 0>>
    /\ arena.occ[<<0, 0>>] # None
    /\ ~panicked

\* ------------------------------------------------------------------ claims on planning and moving
\* A step of move_rats, move_snakes or move_mongoose.
MoveStep ==
    \/ steps'.moves # steps.moves
    \/ last'.op \in {"move_rats", "move_snakes", "move_mongoose"}

\* C15: a movement step of a rat or snake whose route is empty changes
\* nothing: no position, segment, target, occupancy, graph edge or
\* scoreboard counter; and a rat or snake without a route stays where it
\* is, with the AI it has, through every movement step it survives.
C15_NoRouteNoMove ==
    [][/\ (vars' # vars /\ last'.outcome = "no_route")
          => UNCHANGED <<arena, berries, rats, snakes, mongoose, scoreboard,
                         grow_events, next_entity, steps, panicked>>
       /\ \A i \in DOMAIN rats :
             (rats[i].ai.path = <<>> /\ MoveStep)
                => \A j \in DOMAIN rats' :
                      rats'[j].id = rats[i].id => rats'[j] = rats[i]
       /\ \A i \in DOMAIN snakes :
             (snakes[i].ai.path = <<>> /\ MoveStep)
                => \A j \in DOMAIN snakes' :
                      snakes'[j].id = snakes[i].id => snakes'[j] = snakes[i]]_vars

\* A rat has eaten the berry at the end of its route and its next movement
\* step found no route.
C15_Witness ==
    /\ last.op = "move_rats" /\ last.outcome = "no_route"
    /\ scoreboard.berries_eaten_by_rats = 1
    /\ \E i \in DOMAIN rats :
          rats[i].ai.path = <<>> /\ rats[i].ai.target # None

\* The bodies of the simulation: every snake and the mongoose.
Bodies ==
    {snakes[i].segments : i \in DOMAIN snakes}
        \cup (IF mongoose = None THEN {} ELSE {mongoose.segments})

\* C16: successive segments of every body are grid-adjacent (no growth
\* event ever arrives, so they are never at the same position), and
\* set_segment_sprites never panics on a pair of segments.
C16_SegmentsAdjacent ==
    /\ \A body \in Bodies :
          /\ \A k \in 1 .. Len(body) - 1 : Adjacent(body[k].pos, body[k + 1].pos)
          /\ SpritesOk(body)
    /\ last.op # "set_segment_sprites"
    /\ ~panicked

\* The mongoose has turned a corner and a snake has entered the arena with
\* its second segment.
C16_Witness ==
    /\ mongoose # None
    /\ mongoose.segments[1].pos = <<1, 2>>
    /\ mongoose.segments[2].pos = <<2, 2>>
    /\ mongoose.segments[3].pos = <<3, 2>>
    /\ \E i \in DOMAIN snakes :
          /\ snakes[i].segments[2].pos \in Cells
          /\ snakes[i].head_position = snakes[i].segments[1].pos

\* Agent b holds a route toward an entity that is no longer alive.
Stale(b) ==
    /\ b.ai.path # <<>>
    /\ b.ai.target # None /\ b.ai.target[1] = "Entity"
    /\ \A i \in DOMAIN berries : berries[i].id # b.ai.target[2]
    /\ \A i \in DOMAIN rats : rats[i].id # b.ai.target[2]

\* The step is the planning step of agent b.
PlansNow(b) ==
    /\ last'.op \in {"plan_rats", "plan_snakes"}
    /\ last'.agent = b.id

\* C17: when the entity an agent chases has been despawned while the agent
\* holds a route toward it, the agent's next planning or movement step
\* leaves the agent without route and without target.
C17_StaleRouteDiscarded ==
    [][\A b \in AgentsOf(rats, snakes) :
          (vars' # vars /\ Stale(b) /\ (PlansNow(b) \/ MovesNow(b)))
             => \A bn \in AgentsOf(rats', snakes') :
                   bn.id = b.id => (bn.ai.path = <<>> /\ bn.ai.target = None)]_vars

\* The cell of the live berry or rat with id e.
EntityCell(e) ==
    IF \E i \in DOMAIN berries : berries[i].id = e
    THEN berries[IndexOfEntity(berries, e)].pos
    ELSE rats[IndexOfEntity(rats, e)].pos

\* The last step was a planning step of an agent of the given systems that
\* selected an entity target.
SelectedEntity(ops) ==
    /\ last.op \in ops
    /\ last.outcome \in {"planned", "same"}
    /\ last.selected # None /\ last.selected[1] = "Entity"

\* The agent that planned last retains the entity target it selected and,
\* when a path of at most MAX_PATH_LENGTH steps to the entity's cell
\* exists, holds a route ending on that cell.
PlannedTowardEntity ==
    \E b \in AgentsOf(rats, snakes) :
        /\ b.id = last.agent
        /\ b.ai.target = last.selected
        /\ LET goal == EntityCell(last.selected[2])
           IN (goal \in Within(arena.occ, {b.pos, goal}, b.pos, MAX_PATH_LENGTH))
                 => (b.ai.path # <<>> /\ Last(b.ai.path) = goal)

\* C18: an agent whose target selection yields an entity (a berry for a
\* rat, a rat or a berry for a snake) ends the planning step with that
\* target and with a route to the entity's cell whenever a bounded free
\* path exists.
C18_EntityTargetPlanned ==
    SelectedEntity({"plan_rats", "plan_snakes"}) => PlannedTowardEntity

\* What the code does for rats.
RatEntityTargetPlanned ==
    SelectedEntity({"plan_rats"}) => PlannedTowardEntity

\* C19: a planning step leaves every agent that still has waypoints as it
\* is (route, target, position), and the planning step of such an agent
\* changes nothing at all.
C19_PlanningSparesBusyAgents ==
    [][(vars' # vars /\ last'.op \in {"plan_rats", "plan_snakes"})
       => /\ \A b \in AgentsOf(rats, snakes) :
                b.ai.path # <<>> => b \in AgentsOf(rats', snakes')
          /\ (\E b \in AgentsOf(rats, snakes) :
                   b.id = last'.agent /\ b.ai.path # <<>>)
               => (/\ last'.outcome = "busy"
                   /\ UNCHANGED <<arena, berries, rats, snakes, mongoose,
                                  scoreboard, grow_events, next_entity, steps,
                                  panicked>>)]_vars

\* The planning step of a snake on its way to a position found it busy.
C19_Witness ==
    /\ last.op = "plan_snakes" /\ last.outcome = "busy"
    /\ \E i \in DOMAIN snakes :
          /\ snakes[i].id = last.agent
          /\ snakes[i].ai.path # <<>>
          /\ snakes[i].ai.target = <<"Position", Last(snakes[i].ai.path)>>
          /\ snakes[i].segments[2].pos \in Cells

\* ------------------------------------------------------------------ claims on the tick
\* C20: within one tick no step of another agent lies between the planning
\* step of an agent and the movement step of that agent.
C20_AgentStepsContiguous ==
    \A i, k \in DOMAIN steps.log :
        (/\ i < k
         /\ steps.log[i][1] = "plan" /\ steps.log[k][1] = "move"
         /\ steps.log[i][2] = steps.log[k][2])
        => \A j \in (i + 1) .. (k - 1) : steps.log[j][2] = steps.log[i][2]

\* What the chain of systems gives instead: within one tick every planning
\* step of plan_rats precedes every movement step of move_rats.
SystemsRunInChainOrder ==
    \A i, k \in DOMAIN steps.log :
        (steps.log[i][1] = "move" /\ steps.log[k][1] = "plan") => i > k

\* ------------------------------------------------------------------ claims on the planner's frame
\* C21: plan_path leaves occupancy as it found it: after the call every
\* cell, start and goal included, has the occupant it had before the call,
\* whether or not a route was found and whether or not goal held an entity.
C21_PlanPathRestoresOccupancy ==
    PlanDone => (~arena.panic /\ arena.occ = last.before.occ)

\* A call toward a goal that holds a berry found no route, and the rat and
\* the berry are where they were.
C21_Witness ==
    /\ PlanDone /\ PlanRoute = <<>>
    /\ last.before.occ[last.goal] # None
    /\ arena.occ[last.goal] = last.before.occ[last.goal]
    /\ arena.occ[last.start] = <<"Rat", rats[1].id>>

\* The number of edges between every pair of cells of graph g.
EdgeCounts(g) ==
    [u \in Cells |-> [v \in Cells |-> Cardinality(EdgesBetween(g, u, v))]]

\* The step is a call of unset_maybe on a cell of the arena.
UnsetMaybeInArena ==
    /\ vars' # vars
    /\ last'.op = "Arena" /\ last'.outcome = "unset_maybe"
    /\ last'.cell \in Cells

\* C22: unset_maybe on a free cell of the arena returns none and leaves
\* occupancy and graph (the number of edges between each pair of cells
\* included) as they were; on an occupied cell it does what unset does.
C22_UnsetMaybeFreeIsNoOp ==
    [][UnsetMaybeInArena =>
          LET c == last'.cell
          IN IF arena.occ[c] = None
             THEN /\ last'.ret = None
                  /\ arena'.occ = arena.occ
                  /\ EdgeCounts(arena'.graph) = EdgeCounts(arena.graph)
                  /\ ~arena'.panic
             ELSE /\ last'.ret = unset(arena, c[1], c[2]).ret
                  /\ arena' = unset(arena, c[1], c[2]).arena]_vars

\* What the code does on a free cell: none is returned and occupancy is
\* kept, and one more edge joins the cell to each of its free neighbours.
UnsetMaybeFreeAddsEdges ==
    [][UnsetMaybeInArena =>
          LET c == last'.cell
          IN IF arena.occ[c] = None
             THEN /\ last'.ret = None
                  /\ arena'.occ = arena.occ
                  /\ ~arena'.panic
                  /\ \A u, v \in Cells :
                        EdgeCounts(arena'.graph)[u][v] =
                           EdgeCounts(arena.graph)[u][v]
                           + (IF /\ c \in {u, v} /\ Adjacent(u, v)
                                 /\ arena.occ[u] = None /\ arena.occ[v] = None
                              THEN 1 ELSE 0)
             ELSE /\ last'.ret = unset(arena, c[1], c[2]).ret
                  /\ arena' = unset(arena, c[1], c[2]).arena]_vars

\* ------------------------------------------------------------------ claims on target selection
\* The values of the planning roll for which the if-chain F takes branch b.
RollsSelecting(F(_), b) == {roll \in Rolls : F(roll) = b}

\* Some rat and some snake are without a route, so that their next planning
\* step rolls.
AgentsRoll ==
    /\ \E i \in DOMAIN rats : ~busy(rats[i].ai)
    /\ \E i \in DOMAIN snakes : ~busy(snakes[i].ai)

\* C23: the number of roll values that select a behaviour equals the
\* preference declared for it: for rats 4 chase a berry, 3 wander and 3 do
\* nothing; for snakes 5 chase a rat, 2 chase a berry, 2 wander and 1 does
\* nothing.
C23_RollsMatchPreferences ==
    AgentsRoll =>
        /\ Cardinality(RollsSelecting(rat_behaviour, "berry")) = RAT_BERRY_PREFERENCE
        /\ Cardinality(RollsSelecting(rat_behaviour, "wander")) = RAT_WANDER_PREFERENCE
        /\ Cardinality(RollsSelecting(rat_behaviour, "nothing"))
              = 10 - RAT_BERRY_PREFERENCE - RAT_WANDER_PREFERENCE
        /\ Cardinality(RollsSelecting(snake_behaviour, "rat")) = SNAKE_RAT_PREFERENCE
        /\ Cardinality(RollsSelecting(snake_behaviour, "berry"))
              = SNAKE_BERRY_PREFERENCE
        /\ Cardinality(RollsSelecting(snake_behaviour, "wander"))
              = SNAKE_WANDER_PREFERENCE
        /\ Cardinality(RollsSelecting(snake_behaviour, "nothing"))
              = 10 - SNAKE_RAT_PREFERENCE - SNAKE_BERRY_PREFERENCE
                   - SNAKE_WANDER_PREFERENCE

\* What the comparisons of the code give: the first branch of each chain
\* takes one roll more than its preference (<= where < was meant) and the
\* wander branch one less.
RollsAsCompared ==
    AgentsRoll =>
        /\ RollsSelecting(rat_behaviour, "berry") = 0 .. RAT_BERRY_PREFERENCE
        /\ Cardinality(RollsSelecting(rat_behaviour, "wander"))
              = RAT_WANDER_PREFERENCE - 1
        /\ Cardinality(RollsSelecting(rat_behaviour, "nothing"))
              = 10 - RAT_BERRY_PREFERENCE - RAT_WANDER_PREFERENCE
        /\ RollsSelecting(snake_behaviour, "rat") = 0 .. SNAKE_RAT_PREFERENCE
        /\ Cardinality(RollsSelecting(snake_behaviour, "berry"))
              = SNAKE_BERRY_PREFERENCE
        /\ Cardinality(RollsSelecting(snake_behaviour, "wander"))
              = SNAKE_WANDER_PREFERENCE - 1
        /\ Cardinality(RollsSelecting(snake_behaviour, "nothing"))
              = 10 - SNAKE_RAT_PREFERENCE - SNAKE_BERRY_PREFERENCE
                   - SNAKE_WANDER_PREFERENCE

\* The live entities of a kind as <<id, position>>.
LiveOf(kind) ==
    IF kind = "Rat" THEN {<<rats[i].id, rats[i].pos>> : i \in DOMAIN rats}
    ELSE {<<berries[i].id, berries[i].pos>> : i \in DOMAIN berries}

\* The coordinate-sum distance proxy and the Manhattan distance.
Proxy(a, e) == Abs((a[1] + a[2]) - (e[1] + e[2]))
Manhattan(a, e) == Abs(a[1] - e[1]) + Abs(a[2] - e[2])

\* The entities of a kind that qualify for the agent at cell a.
Qualifying(kind, a) ==
    {e \in LiveOf(kind) : Proxy(a, e[2]) <= MAX_PATH_LENGTH}

\* C24: choose_random_entity returns an entity target only among the live
\* entities of the kind asked for whose coordinate-sum proxy to the agent
\* is at most MAX_PATH_LENGTH, and none exactly when no entity qualifies;
\* every entity within Manhattan distance MAX_PATH_LENGTH qualifies.
C24_EntityWithinProxy ==
    last.op = "choose_random_entity" =>
        LET a == snakes[1].head_position
            q == Qualifying(last.kind, a)
        IN /\ last.ret # None =>
                 /\ last.ret[1] = "Entity"
                 /\ \E e \in q : e[1] = last.ret[2]
           /\ (last.ret = None) <=> (q = {})
           /\ \A e \in LiveOf(last.kind) :
                 Manhattan(a, e[2]) <= MAX_PATH_LENGTH => e \in q

\* The berry returned is farther than MAX_PATH_LENGTH grid steps from the
\* agent, with coordinate differences of opposite signs, while the other
\* berry does not qualify.
C24_Witness ==
    /\ last.op = "choose_random_entity" /\ last.kind = "Berry"
    /\ last.ret # None
    /\ \E e \in LiveOf("Berry") :
          /\ e[1] = last.ret[2]
          /\ Manhattan(snakes[1].head_position, e[2]) > MAX_PATH_LENGTH
          /\ (snakes[1].head_position[1] - e[2][1])
                * (snakes[1].head_position[2] - e[2][2]) < 0
    /\ \E e \in LiveOf("Berry") : e \notin Qualifying("Berry", snakes[1].head_position)

\* The step is a planning step that selected a wander target.
SelectsPosition ==
    /\ vars' # vars
    /\ last'.op \in {"plan_rats", "plan_snakes"}
    /\ last'.outcome \in {"planned", "same"}
    /\ last'.selected # None /\ last'.selected[1] = "Position"

\* In the simulation every planning step that selects a position target
\* selects a free cell of the arena within MAX_PATH_LENGTH / 2 of the agent
\* in each coordinate.
WanderPlansFreeInBox ==
    [][SelectsPosition =>
          \A b \in AgentsOf(rats, snakes) :
              b.id = last'.agent =>
                 LET t == last'.selected[2]
                 IN /\ t \in Cells
                    /\ Abs(t[1] - b.pos[1]) <= MAX_PATH_LENGTH \div 2
                    /\ Abs(t[2] - b.pos[2]) <= MAX_PATH_LENGTH \div 2
                    /\ arena.occ[t] = None
                    /\ t # b.pos]_vars

\* C25: every wander target choose_random_unocc returns is a cell of the
\* arena, within MAX_PATH_LENGTH / 2 of the agent in each coordinate, and
\* unoccupied when it is selected, so never the agent's own cell.
C25_WanderTargetFreeInBox ==
    (last.op = "choose_random_unocc" /\ last.ret # None) =>
        LET t == last.ret[2]
            p == rats[1].pos
        IN /\ last.ret[1] = "Position"
           /\ t \in SourceCells
           /\ Abs(t[1] - p[1]) <= MAX_PATH_LENGTH \div 2
           /\ Abs(t[2] - p[2]) <= MAX_PATH_LENGTH \div 2
           /\ arena.occ[t] = None
           /\ t # p

\* A rat at (16, 4), where the box is cut off at the right edge of the arena
\* and reaches the bottom edge exactly, with a berry on the corner (12, 8)
\* of its box, was given the corner (19, 0): on the edge of the arena in x,
\* and MAX_PATH_LENGTH / 2 away in y.
C25_Witness ==
    /\ last.op = "choose_random_unocc"
    /\ rats[1].pos = <<16, 4>>
    /\ berries # <<>> /\ berries[1].pos = <<12, 8>>
    /\ last.ret = <<"Position", <<19, 0>>>>

\* What choose_random_unocc can do for agent b in the current arena: the
\* target returned and the number of draws made.
WanderOutcomes(b) == unocc_loop(wander_box(b.pos), arena, InitialAttempts)

\* The cells a draw for agent b can land on.
DrawCells(b) ==
    gen_range(wander_box(b.pos).x_min, wander_box(b.pos).x_max + 1)
        \X gen_range(wander_box(b.pos).y_min, wander_box(b.pos).y_max + 1)

\* C26: choose_random_unocc gives up only after AttemptBudget draws have
\* each landed on an occupied cell, and returns a target as soon as a draw
\* lands on a free cell.
C26_RetriesUpToBudget ==
    \A b \in AgentsOf(rats, snakes) :
        ~busy(b.ai) =>
            \A r \in WanderOutcomes(b) :
                /\ r.ret = None => r.draws = AttemptBudget
                /\ r.ret # None => (r.draws <= AttemptBudget
                                     /\ arena.occ[r.ret[2]] = None)

\* What the loop does with attempts starting at the budget: it returns
\* after one draw, the cell when it is free and none when it is occupied.
GivesUpAfterOneDraw ==
    \A b \in AgentsOf(rats, snakes) :
        ~busy(b.ai) =>
            /\ \A r \in WanderOutcomes(b) : r.draws = 1
            /\ \A c \in DrawCells(b) :
                  IF arena.occ[c] = None
                  THEN [ret |-> <<"Position", c>>, draws |-> 1] \in WanderOutcomes(b)
                  ELSE [ret |-> None, draws |-> 1] \in WanderOutcomes(b)

\* ------------------------------------------------------------------ claims on the graph's history
\* The arena Arena::new and one set per occupied cell of occupancy o, in
\* the order of the cells, give: the arena with occupancy o and the
\* shortest history.
RECURSIVE SetFrom(_, _, _)
SetFrom(a, o, k) ==
    IF k > Len(CellSeq) THEN a
    ELSE IF o[CellSeq[k]] # None
    THEN SetFrom(set(a, CellSeq[k][1], CellSeq[k][2], o[CellSeq[k]]), o, k + 1)
    ELSE SetFrom(a, o, k + 1)

ArenaWithOccupancy(o) == SetFrom(ArenaNew, o, 1)

\* The route plan_path stores for an agent without a route.
RouteOn(a, p, goal) == plan_path(NewAI, p, goal, a).ai.path

\* The pairs of an occupied start and another cell as goal the calls are
\* made with.
PlanPairs ==
    {pg \in (CallCells \cap Cells) \X (CallCells \cap Cells) :
        pg[1] # pg[2] /\ arena.occ[pg[1]] # None}

\* C27: the route plan_path produces depends on start, goal and occupancy
\* only: on the arena the calls so far have left it is the route produced
\* on the arena with the same occupancy and no other history.
C27_RouteDependsOnOccupancyOnly ==
    (last.op = "Arena" /\ ~arena.panic) =>
        \A pg \in PlanPairs :
            RouteOn(arena, pg[1], pg[2])
               = RouteOn(ArenaWithOccupancy(arena.occ), pg[1], pg[2])

\* What holds: a second call with the same start and goal, made on the
\* arena the first call left, produces the route of the first.
RepeatedCallSameRoute ==
    (last.op = "Arena" /\ ~arena.panic) =>
        \A pg \in PlanPairs :
            RouteOn(plan_path(NewAI, pg[1], pg[2], arena).arena, pg[1], pg[2])
               = RouteOn(arena, pg[1], pg[2])

\* The pairs of grid-adjacent cells, each pair once.
AdjacentPairs ==
    {p \in Cells \X Cells :
        Adjacent(p[1], p[2]) /\ p[1][1] + p[1][2] < p[2][1] + p[2][2]}

\* C28: the arena graph is a simple graph in every state: at most one edge
\* joins any two cells, so there are never more edges than pairs of
\* grid-adjacent cells.
C28_GraphIsSimple ==
    /\ \A u, v \in Cells : Cardinality(EdgesBetween(arena.graph, u, v)) <= 1
    /\ Len(arena.graph) <= Cardinality(AdjacentPairs)

\* What holds: every edge, the parallel ones included, joins two distinct
\* free cells.
EveryEdgeJoinsFreeCells ==
    \A k \in DOMAIN arena.graph :
        /\ arena.graph[k][1] # arena.graph[k][2]
        /\ arena.occ[arena.graph[k][1]] = None
        /\ arena.occ[arena.graph[k][2]] = None

\* ------------------------------------------------------------------ claims on the steps of a move
\* The mongoose is inside the arena with its head and every segment.
MongooseInArena(m) ==
    /\ m.head_position \in Cells
    /\ \A k \in DOMAIN m.segments : m.segments[k].pos \in Cells

\* C29: every move changes the mover's head by exactly one grid step: the
\* waypoint move_rats or move_snakes pops is a cell of the arena next to
\* the agent's head, the agent ends on that waypoint or stays where it is,
\* no rat, snake or mongoose head changes by more than one step in any
\* step, and the mongoose stays inside the arena with head and segments.
C29_MovesAreSingleSteps ==
    [][/\ \A b \in AgentsOf(rats, snakes) :
             /\ MovesNow(b) =>
                   /\ Head(b.ai.path) \in Cells
                   /\ Adjacent(b.pos, Head(b.ai.path))
             /\ \A bn \in AgentsOf(rats', snakes') :
                   bn.id = b.id =>
                      \/ bn.pos = b.pos
                      \/ /\ MovesNow(b)
                         /\ bn.pos = Head(b.ai.path)
                         /\ Adjacent(b.pos, bn.pos)
       /\ \/ mongoose'.head_position = mongoose.head_position
          \/ Adjacent(mongoose.head_position, mongoose'.head_position)
       /\ MongooseInArena(mongoose) /\ MongooseInArena(mongoose')]_vars

\* A rat has left the window it was spawned in along its route, and the
\* mongoose has moved to the edge of the arena.
C29_Witness ==
    /\ \E i \in DOMAIN rats :
          /\ rats[i].pos \notin (0 .. RngRange - 1) \X (0 .. RngRange - 1)
          /\ rats[i].ai.target # None
    /\ mongoose.head_position[2] = ARENA_HEIGHT - 1
    /\ MongooseInArena(mongoose)

\* ------------------------------------------------------------------ claims on route consumption
\* The live agent with the id holds a route.
HasRoute(id) ==
    \E b \in AgentsOf(rats, snakes) : b.id = id /\ b.ai.path # <<>>

\* The step is a fired movement tick of agent b, which holds a route: a
\* move was counted, and b changed place or the step is recorded for b.
TicksNow(b) ==
    /\ b.ai.path # <<>>
    /\ steps'.moves = steps.moves + 1
    /\ \/ \E bn \in AgentsOf(rats', snakes') : bn.id = b.id /\ bn.pos # b.pos
       \/ /\ last'.op \in {"move_rats", "move_snakes"}
          /\ last'.outcome \in {"ate", "blocked"}
          /\ last'.agent = b.id

\* C30: every movement step of an agent that has a route leaves the agent
\* with a strictly shorter route (one waypoint popped, or the route cleared
\* on a block), and with move timers that keep firing every route is
\* eventually empty (or its agent eaten), so that the next planning step of
\* the agent plans again.
C30_RoutesShrinkToEmpty ==
    /\ [][\A b \in AgentsOf(rats, snakes) :
             TicksNow(b) =>
                \A bn \in AgentsOf(rats', snakes') :
                    bn.id = b.id => Len(bn.ai.path) < Len(b.ai.path)]_vars
    /\ \A id \in {Entity("Rat", 1, 0), Entity("Snake", 1, 0)} :
          HasRoute(id) ~> ~HasRoute(id)

\* A rat has walked a route of at least three waypoints to its end and
\* stands on its wander target without a route.
C30_Witness ==
    /\ steps.moves >= 3
    /\ \E i \in DOMAIN rats :
          /\ rats[i].ai.path = <<>>
          /\ rats[i].ai.target = <<"Position", rats[i].pos>>
    /\ \A i \in DOMAIN snakes : snakes[i].ai = NewAI

\* ------------------------------------------------------------------ claims on spawning
\* C31: every spawn step terminates: whenever spawn_berries or spawn_rats
\* can fire some cell of the arena is unoccupied, whenever spawn_snakes can
\* fire some candidate edge cell is unoccupied, and no rejection loop of a
\* spawn system is left spinning.
C31_SpawnLoopsTerminate ==
    /\ last.outcome # "spins"
    /\ FillRunning => FreeCells(arena) # {} /\ FreeSnakeCells(arena) # {}

\* What holds: a spawn loop is left spinning only on an arena that has no
\* free cell among the cells the loop draws from, and the arena and the
\* entities are as they were when the loop was entered.
SpawnSpinsOnlyWithoutFreeCell ==
    /\ last.outcome = "spins" =>
          IF last.op = "spawn_snakes" THEN FreeSnakeCells(arena) = {}
          ELSE FreeCells(arena) = {}
    /\ Cardinality(Cells \ FreeCells(arena))
          = Len(berries) + Len(rats) + Len(mongoose.segments)
            + Cardinality({s.pos : s \in UNION {{sn.segments[k] : k \in DOMAIN sn.segments} :
                                      sn \in {snakes[i] : i \in DOMAIN snakes}}} \cap Cells)

\* ------------------------------------------------------------------ claims on the scoreboard
\* The berries and the rats despawned so far: those spawned and no longer
\* in their table.
DespawnedBerries == next_entity.Berry - 1 - Len(berries)
DespawnedRats == next_entity.Rat - 1 - Len(rats)

BerriesEaten ==
    scoreboard.berries_eaten_by_mongoose + scoreboard.berries_eaten_by_rats
        + scoreboard.berries_eaten_by_snakes
RatsEaten == scoreboard.rats_eaten_by_mongoose + scoreboard.rats_eaten_by_snakes

\* The ids of the live berries and rats.
LiveIds(table) == {table[i].id : i \in DOMAIN table}

\* C32: score conservation: the consumption counters count the despawned
\* berries and rats, in every state (by kind, and so in total); no counter
\* ever decreases; and a berry or rat is consumed at most once: the entity
\* eaten was live in exactly one row of its table and on the cell stepped
\* onto, it is in no table and on no cell afterwards, every other berry and
\* rat stays live, and an entity id is never handed out twice.
C32_ScoreConservation ==
    /\ [](/\ BerriesEaten = DespawnedBerries
          /\ RatsEaten = DespawnedRats
          /\ BerriesEaten + RatsEaten = DespawnedBerries + DespawnedRats
          /\ \A i, j \in DOMAIN berries : berries[i].id = berries[j].id => i = j
          /\ \A i, j \in DOMAIN rats : rats[i].id = rats[j].id => i = j)
    /\ [][/\ \A f \in DOMAIN scoreboard : scoreboard'[f] >= scoreboard[f]
          /\ next_entity'.Berry >= next_entity.Berry
          /\ next_entity'.Rat >= next_entity.Rat
          /\ \A e \in LiveIds(berries') \cup LiveIds(rats') :
                e \in LiveIds(berries) \cup LiveIds(rats)
                \/ e = Entity("Berry", next_entity.Berry, 0)
                \/ e = Entity("Rat", next_entity.Rat, 0)
          /\ (vars' # vars /\ last'.outcome = "ate") =>
                LET v == last'.victim
                    table == IF v[1] = "Berry" THEN berries ELSE rats
                IN /\ Cardinality({i \in DOMAIN table : table[i].id = v[2]}) = 1
                   /\ {c \in Cells : arena.occ[c] = v} = {last'.cell}
                   /\ v[2] \notin LiveIds(berries') \cup LiveIds(rats')
                   /\ \A c \in Cells : arena'.occ[c] # v
                   /\ LiveIds(berries') \cup LiveIds(rats')
                         = (LiveIds(berries) \cup LiveIds(rats)) \ {v[2]}]_vars

\* A berry and a rat have both been consumed.
C32_Witness ==
    /\ BerriesEaten >= 1 /\ RatsEaten >= 1
    /\ BerriesEaten + RatsEaten = DespawnedBerries + DespawnedRats

====
